---- MODULE Spec2Model ----
(***************************************************************************)
(* Verification model of the form-filling scripts of the repository:       *)
(*   - google-form-rpa-agent: rpa/browser_filler.py (prefill_form) and     *)
(*     rpa/form_parser_gemini.py (summarize_form_fields, call_gemini and   *)
(*     the fallback guesser);                                              *)
(*   - prac/main.py: the Selenium CSV filler (fill_text_field,             *)
(*     select_checkboxes, parse_row_types, submit_form, main) and its      *)
(*     inspector (run_inspector's CSV template);                           *)
(*   - sallie_form/form_filler/__main__.py with normalforms/form_filler:   *)
(*     the Airtable CLI (fill_value, submit, wait_for_success, main) and   *)
(*     its run log (utils.py, save_log).                                   *)
(* Strings are sequences of one-character strings, so that the regular     *)
(* expressions, int()/str() conversions, strip() and substring tests of    *)
(* the code are computed rather than assumed.                              *)
(***************************************************************************)
EXTENDS Integers, Sequences, FiniteSets, TLC

----------------------------------------------------------------------------
(* Bounds of the model *)

\* longest config handed to prefill_form
MaxFields == 2
\* most field descriptors of a summarized form
MaxDesc == 2
\* most question blocks of a form
MaxBlocks == 2
\* most options handed to select_checkboxes
MaxOpts == 2
\* most columns of a CSV row
MaxCols == 2

----------------------------------------------------------------------------
(* State.  The scripts are independent programs; each has its own variables *)
(* and its own specification, under which the other scripts do not move.    *)

VARIABLES
    \* rpa/browser_filler.py, prefill_form
    config,        \* the FormConfig's fields
    page,          \* the rendered form
    keep_open,     \* --keep-open
    fast,          \* --fast
    pf_pc,         \* position in prefill_form
    pf_i,          \* index of the field the loop of line 23 is at
    pf_log,        \* the page interactions made so far, in order
    \* rpa/form_parser_gemini.py, build_config_from_gemini
    summary,       \* field descriptors of summarize_form_fields
    basic,         \* BASIC_INFO, the profile
    api,           \* whether an API key is set (line 12)
    resp,          \* what generate_content does
    gm_pc,         \* position in build_config_from_gemini
    cfg,           \* the config returned
    \* prac/main.py, the Selenium CSV filler
    dom,           \* the form's question blocks and their controls
    question_label,\* label argument of the field function called
    option_values, \* select_checkboxes' options
    sel_pc,        \* calls made so far
    clicks,        \* controls clicked by the last call, in order
    dom_before,    \* the form as it was when the last call started
    filled,        \* control that received send_keys in fill_text_field (0: none)
    result,        \* the last call's return value
    \* prac/main.py, parse_row_types
    row,           \* one csv.DictReader row: (header, value) pairs in order
    pr_pc,         \* position in parse_row_types
    pr_i,          \* index of the column the loop of line 233 is at
    text_fields, radio_fields, checkbox_fields,
    \* prac/main.py, main: the CSV run
    csv,           \* the rows of the CSV file, as read_csv_rows returns them
    limit,         \* --limit
    form,          \* the form served at --url
    rows,          \* main's rows
    cs_pc,         \* position in main / fill_and_submit_once / submit_form
    cs_i,          \* the row index i of line 449
    cs_todo,       \* the fields of the row not yet attempted
    cs_log,        \* what the run did so far, in order
    sf_iter,       \* submit_form: iterations of the loop of line 213 completed
    sf_next,       \* submit_form: clicks on Next/Continue in this call
    sf_submit,     \* submit_form: clicks on Submit/Send in this call
    sf_final,      \* submit_form: attempts of line 221 in this call
    sf_end,        \* submit_form: how the loop of line 213 was left
    \* sallie_form/form_filler/__main__.py, main: the Airtable CLI
    at_config,     \* the file --config names
    at_data,       \* the file --data names
    at_url,        \* whether --url is given
    at_page,       \* the form page: its elements in document order, and the files on disk
    at_pc,         \* position in main
    at_i,          \* index of the data entry the loop of line 114 is at
    at_status,     \* main's status
    at_sysexit,    \* whether a SystemExit raised inside the try is in flight
    at_ops,        \* the page interactions made so far, in order
    at_ws,         \* wait_for_success: the detectors consulted and what each said
    run_log,       \* the entries save_log appended to output/run_log.csv
    exit_code,     \* the process's exit code (-1: still running)
    \* rpa/form_parser_gemini.py, summarize_form_fields
    html,          \* the page: its entry.* controls and its script text
    sm_pc,         \* position in summarize_form_fields
    sm_i,          \* the scan of line 65: index i
    sm_count,      \* the scan of line 65: count
    sm_end,        \* the scan of line 65: end (0: None)
    sm_fields,     \* fields, in insertion order
    sm_caught,     \* whether the except of line 123 ran
    \* sallie_form/form_filler/utils.py, save_log
    log_file,      \* output/run_log.csv: whether it exists, and its lines
    log_calls,     \* the rows save_log was called with, in call order
    \* prac/main.py, run_inspector's template and its reading back
    questions,     \* what extract_form_questions detected
    template,      \* the CSV file written: headers and sample row
    tp_pc,         \* position: inspector, then filler
    tp_rows,       \* read_csv_rows of the template
    tp_fields      \* parse_row_types of the template's row

pfvars == <<config, page, keep_open, fast, pf_pc, pf_i, pf_log>>
gmvars == <<summary, basic, api, resp, gm_pc, cfg>>
slvars == <<dom, question_label, option_values, sel_pc, clicks, dom_before, filled, result>>
prvars == <<row, pr_pc, pr_i, text_fields, radio_fields, checkbox_fields>>
csvars == <<csv, limit, form, rows, cs_pc, cs_i, cs_todo, cs_log,
            sf_iter, sf_next, sf_submit, sf_final, sf_end>>
atvars == <<at_config, at_data, at_url, at_page, at_pc, at_i, at_status, at_sysexit,
            at_ops, at_ws, run_log, exit_code>>
smvars == <<html, sm_pc, sm_i, sm_count, sm_end, sm_fields, sm_caught>>
lgvars == <<log_file, log_calls>>
tpvars == <<questions, template, tp_pc, tp_rows, tp_fields>>
vars == <<pfvars, gmvars, slvars, prvars, csvars, atvars, smvars, lgvars, tpvars>>

\* the scripts not running under each specification
NotPf == <<gmvars, slvars, prvars, csvars, atvars, smvars, lgvars, tpvars>>
NotGm == <<pfvars, slvars, prvars, csvars, atvars, smvars, lgvars, tpvars>>
NotSl == <<pfvars, gmvars, prvars, csvars, atvars, smvars, lgvars, tpvars>>
NotPr == <<pfvars, gmvars, slvars, csvars, atvars, smvars, lgvars, tpvars>>
NotCs == <<pfvars, gmvars, slvars, prvars, atvars, smvars, lgvars, tpvars>>
NotAt == <<pfvars, gmvars, slvars, prvars, csvars, smvars, lgvars, tpvars>>
NotSm == <<pfvars, gmvars, slvars, prvars, csvars, atvars, lgvars, tpvars>>
NotLg == <<pfvars, gmvars, slvars, prvars, csvars, atvars, smvars, tpvars>>
NotTp == <<pfvars, gmvars, slvars, prvars, csvars, atvars, smvars, lgvars>>

PfIdle ==
    /\ config = <<>> /\ page = [named |-> {}, radios |-> {}, checkboxes |-> {}]
    /\ keep_open = FALSE /\ fast = FALSE
    /\ pf_pc = "off" /\ pf_i = 0 /\ pf_log = <<>>

GmIdle ==
    /\ summary = <<>> /\ basic = <<>> /\ api = FALSE /\ resp = <<>>
    /\ gm_pc = "off" /\ cfg = <<>>

SlIdle ==
    /\ dom = <<>> /\ question_label = <<>> /\ option_values = <<>>
    /\ sel_pc = "off" /\ clicks = <<>> /\ dom_before = <<>>
    /\ filled = <<0, 0>> /\ result = FALSE

PrIdle ==
    /\ row = <<>> /\ pr_pc = "off" /\ pr_i = 0
    /\ text_fields = <<>> /\ radio_fields = <<>> /\ checkbox_fields = <<>>

CsIdle ==
    /\ csv = <<>> /\ limit = 0 /\ form = <<>> /\ rows = <<>>
    /\ cs_pc = "off" /\ cs_i = 0 /\ cs_todo = <<>> /\ cs_log = <<>>
    /\ sf_iter = 0 /\ sf_next = 0 /\ sf_submit = 0 /\ sf_final = 0 /\ sf_end = "off"

AtIdle ==
    /\ at_config = <<>> /\ at_data = <<>> /\ at_url = FALSE /\ at_page = <<>>
    /\ at_pc = "off" /\ at_i = 0 /\ at_status = "" /\ at_sysexit = FALSE
    /\ at_ops = <<>> /\ at_ws = <<>> /\ run_log = <<>> /\ exit_code = -1

SmIdle ==
    /\ html = <<>> /\ sm_pc = "off" /\ sm_i = 0 /\ sm_count = 0 /\ sm_end = 0
    /\ sm_fields = <<>> /\ sm_caught = FALSE

LgIdle == log_file = <<>> /\ log_calls = <<>>

TpIdle ==
    /\ questions = <<>> /\ template = <<>> /\ tp_pc = "off" /\ tp_rows = <<>>
    /\ tp_fields = <<>>

----------------------------------------------------------------------------
(* Strings *)

Digits == {"0", "1", "2", "3", "4", "5", "6", "7", "8", "9"}

DigitVal(c) ==
    CASE c = "0" -> 0 [] c = "1" -> 1 [] c = "2" -> 2 [] c = "3" -> 3
      [] c = "4" -> 4 [] c = "5" -> 5 [] c = "6" -> 6 [] c = "7" -> 7
      [] c = "8" -> 8 [] c = "9" -> 9

DigitChar(n) ==
    CASE n = 0 -> "0" [] n = 1 -> "1" [] n = 2 -> "2" [] n = 3 -> "3"
      [] n = 4 -> "4" [] n = 5 -> "5" [] n = 6 -> "6" [] n = 7 -> "7"
      [] n = 8 -> "8" [] n = 9 -> "9"

\* s[a..b], empty when a > b
Slice(s, a, b) == SubSeq(s, a, b)

AllDigits(s) == \A k \in 1..Len(s) : s[k] \in Digits

RECURSIVE int(_)
\* Python int() of a string of decimal digits
int(s) ==
    IF Len(s) = 0 THEN 0
    ELSE 10 * int(Slice(s, 1, Len(s) - 1)) + DigitVal(s[Len(s)])

RECURSIVE str(_)
\* Python str() of a non-negative integer: no leading zeros
str(n) ==
    IF n < 10 THEN <<DigitChar(n)>>
    ELSE str(n \div 10) \o <<DigitChar(n % 10)>>

\* Python f"{n:02d}"
Format02d(n) == IF n < 10 THEN <<"0">> \o str(n) ELSE str(n)

\* the position just after the pattern's last character satisfies "$":
\* the end of the string, or a single trailing newline
AtDollar(s, k) == k = Len(s) \/ (k = Len(s) - 1 /\ s[Len(s)] = "\n")

LowerChar(c) ==
    CASE c = "A" -> "a" [] c = "B" -> "b" [] c = "C" -> "c" [] c = "D" -> "d"
      [] c = "E" -> "e" [] c = "F" -> "f" [] c = "G" -> "g" [] c = "H" -> "h"
      [] c = "I" -> "i" [] c = "J" -> "j" [] c = "K" -> "k" [] c = "L" -> "l"
      [] c = "M" -> "m" [] c = "N" -> "n" [] c = "O" -> "o" [] c = "P" -> "p"
      [] c = "Q" -> "q" [] c = "R" -> "r" [] c = "S" -> "s" [] c = "T" -> "t"
      [] c = "U" -> "u" [] c = "V" -> "v" [] c = "W" -> "w" [] c = "X" -> "x"
      [] c = "Y" -> "y" [] c = "Z" -> "z"
      [] OTHER -> c

lower(s) == [k \in 1..Len(s) |-> LowerChar(s[k])]

Whitespace == {" ", "\n"}

RECURSIVE lstrip(_)
lstrip(s) == IF s # <<>> /\ s[1] \in Whitespace THEN lstrip(Tail(s)) ELSE s

RECURSIVE rstrip(_)
rstrip(s) ==
    IF s # <<>> /\ s[Len(s)] \in Whitespace THEN rstrip(SubSeq(s, 1, Len(s) - 1)) ELSE s

\* Python str.strip()
strip(s) == rstrip(lstrip(s))

\* Python "sub in s"
Contains(s, sub) ==
    \E k \in 1..(Len(s) - Len(sub) + 1) : SubSeq(s, k, k + Len(sub) - 1) = sub

----------------------------------------------------------------------------
(* rpa/browser_filler.py: prefill_form *)

S_hi == <<"h", "i">>
S_2025_06_09 == <<"2", "0", "2", "5", "-", "0", "6", "-", "0", "9">>
S_2025_13_40 == <<"2", "0", "2", "5", "-", "1", "3", "-", "4", "0">>
S_2025_6_9 == <<"2", "0", "2", "5", "-", "6", "-", "9">>
S_09_45 == <<"0", "9", ":", "4", "5">>
S_9_45 == <<"9", ":", "4", "5">>
S_Yes == <<"Y", "e", "s">>
S_yes == <<"y", "e", "s">>
S_A == <<"A">>
S_B == <<"B">>

\* a FieldConfig (rpa/types.py); value is a string, or a list when isList
Field(t, eid, v, l) == [type |-> t, entry_id |-> eid, value |-> v, isList |-> l]

FieldPool ==
    { Field("text", "11", S_hi, FALSE),
      Field("paragraph", "", S_hi, FALSE),
      Field("date", "22", S_2025_06_09, FALSE),
      Field("date", "22", S_2025_13_40, FALSE),
      Field("date", "22", S_2025_6_9, FALSE),
      Field("time", "33", S_09_45, FALSE),
      Field("time", "33", S_9_45, FALSE),
      Field("dropdown", "44", S_A, FALSE),
      Field("choice", "", S_yes, FALSE),
      Field("checkbox", "", <<S_A, S_B>>, TRUE) }

RECURSIVE SeqsUpTo(_, _)
SeqsUpTo(S, n) ==
    IF n = 0 THEN {<<>>}
    ELSE LET shorter == SeqsUpTo(S, n - 1)
         IN  shorter \cup {Append(q, x) : q \in shorter, x \in S}

\* an element of the rendered form carrying a name="entry.<eid><suf>" attribute
Named(tag, eid, suf, hid) == [tag |-> tag, eid |-> eid, suf |-> suf, hidden |-> hid]

DateParts == {Named("input", "22", "_year", FALSE), Named("input", "22", "_month", FALSE),
              Named("input", "22", "_day", FALSE)}
TimeParts == {Named("input", "33", "_hour", FALSE), Named("input", "33", "_minute", FALSE)}
FullNamed == DateParts \cup TimeParts \cup
             {Named("input", "11", "", FALSE), Named("select", "44", "", FALSE)}

\* the rendered forms considered: the full form, and forms lacking a control
Pages ==
    {[named |-> FullNamed \ a, radios |-> {S_Yes}, checkboxes |-> {S_A, S_B}] :
        a \in {{}} \cup {{e} : e \in DateParts \cup TimeParts}}
    \cup {[named |-> (FullNamed \ {Named("input", "11", "", FALSE)})
                        \cup {Named("input", "11", "", TRUE)},
           radios |-> {}, checkboxes |-> {S_A}],
          [named |-> FullNamed \ {Named("select", "44", "", FALSE)},
           radios |-> {S_Yes}, checkboxes |-> {}]}

\* mutant: a format check that also validates the calendar ranges
DateMatch_calendar(s) ==
    /\ Len(s) >= 10
    /\ AllDigits(Slice(s, 1, 4)) /\ s[5] = "-"
    /\ AllDigits(Slice(s, 6, 7)) /\ s[8] = "-"
    /\ AllDigits(Slice(s, 9, 10))
    /\ AtDollar(s, 10)
    /\ int(Slice(s, 6, 7)) \in 1..12
    /\ int(Slice(s, 9, 10)) \in 1..31

\* line 35: re.match(r"(\d{4})-(\d{2})-(\d{2})$", str(val))
DateMatch(s) ==
    /\ Len(s) >= 10
    /\ AllDigits(Slice(s, 1, 4)) /\ s[5] = "-"
    /\ AllDigits(Slice(s, 6, 7)) /\ s[8] = "-"
    /\ AllDigits(Slice(s, 9, 10))
    /\ AtDollar(s, 10)

\* line 42: re.match(r"(\d{2}):(\d{2})$", str(val))
TimeMatch(s) ==
    /\ Len(s) >= 5
    /\ AllDigits(Slice(s, 1, 2)) /\ s[3] = ":"
    /\ AllDigits(Slice(s, 4, 5))
    /\ AtDollar(s, 5)

\* mutant: month and day passed on as written, zero-padded
DatePartsOf_padded(s) ==
    << <<"_year", Slice(s, 1, 4)>>,
       <<"_month", Slice(s, 6, 7)>>,
       <<"_day", Slice(s, 9, 10)>> >>

\* line 38: (suffix, value) pairs of a matched date
DatePartsOf(s) ==
    << <<"_year", Slice(s, 1, 4)>>,
       <<"_month", str(int(Slice(s, 6, 7)))>>,
       <<"_day", str(int(Slice(s, 9, 10)))>> >>

\* mutant: the hour passed on as written, zero-padded
TimePartsOf_padded(s) ==
    << <<"_hour", Slice(s, 1, 2)>>,
       <<"_minute", Format02d(int(Slice(s, 4, 5)))>> >>

\* line 45: (suffix, value) pairs of a matched time
TimePartsOf(s) ==
    << <<"_hour", str(int(Slice(s, 1, 2)))>>,
       <<"_minute", Format02d(int(Slice(s, 4, 5)))>> >>

\* pg.locator('[name="entry.<eid><suf>"]').count() > 0
HasNamed(pg, eid, suf) == \E e \in pg.named : e.eid = eid /\ e.suf = suf

\* line 27: input[name=...]:not([type="hidden"]), textarea[name=...]
HasTextControl(pg, eid) ==
    \E e \in pg.named : /\ e.eid = eid /\ e.suf = ""
                        /\ \/ e.tag = "input" /\ ~e.hidden
                           \/ e.tag = "textarea"

HasSelect(pg, eid) ==
    \E e \in pg.named : e.eid = eid /\ e.suf = "" /\ e.tag = "select"

\* get_by_role(role, name=re.compile('^' + re.escape(val) + '$', re.I)):
\* the accessible names that equal val up to case
RoleMatches(names, val) == {n \in names : lower(n) = lower(val)}

\* one page interaction, as recorded in pf_log
Act(op, i, eid, suf, name, val, ok) ==
    [op |-> op, i |-> i, eid |-> eid, suf |-> suf, name |-> name, val |-> val, ok |-> ok]

RECURSIVE PartFills(_, _, _, _, _)
\* lines 38-40 and 45-47: the pg.fill calls over the (suffix, value) pairs;
\* fails = index of the call that raises (0: none); a raising call ends the loop
PartFills(pg, i, eid, parts, fails) ==
    IF parts = <<>> \/ fails < 0 THEN <<>>
    ELSE LET suf == parts[1][1]
             v == parts[1][2]
         IN  IF ~HasNamed(pg, eid, suf)
             THEN PartFills(pg, i, eid, Tail(parts), fails)
             ELSE IF fails = 1
                  THEN <<Act("fill", i, eid, suf, <<>>, v, FALSE)>>
                  ELSE <<Act("fill", i, eid, suf, <<>>, v, TRUE)>>
                       \o PartFills(pg, i, eid, Tail(parts),
                                    IF fails = 0 THEN 0 ELSE fails - 1)

Raised(acts) == \E k \in 1..Len(acts) : ~acts[k].ok

\* lines 56-57 and 66-67: scroll_into_view_if_needed then check; an exception
\* of either is swallowed (fails = 1: scroll raises, 2: check raises)
CheckActs(i, name, fails) ==
    IF fails = 1 THEN <<Act("scroll", i, "", "", name, <<>>, FALSE)>>
    ELSE <<Act("scroll", i, "", "", name, <<>>, TRUE),
           Act("check", i, "", "", name, <<>>, fails # 2)>>

RECURSIVE CheckboxActs(_, _, _, _)
\* lines 62-69
CheckboxActs(pg, i, vals, fails) ==
    IF vals = <<>> THEN <<>>
    ELSE (IF RoleMatches(pg.checkboxes, vals[1]) # {}
          THEN CheckActs(i, vals[1], fails)
          ELSE <<>>)
         \o CheckboxActs(pg, i, Tail(vals), fails)

PfInit ==
    /\ GmIdle /\ SlIdle /\ PrIdle /\ CsIdle /\ AtIdle /\ SmIdle /\ LgIdle /\ TpIdle
    /\ config \in SeqsUpTo(FieldPool, MaxFields)
    /\ page \in Pages
    /\ keep_open \in BOOLEAN
    /\ fast \in BOOLEAN
    /\ pf_pc = "launch"
    /\ pf_i = 1
    /\ pf_log = <<>>

\* lines 6-22: launch, optional route, new page, goto
Goto ==
    /\ pf_pc = "launch"
    /\ \E ok \in BOOLEAN :
        /\ pf_log' = (IF fast THEN <<Act("route", 0, "", "", <<>>, <<>>, TRUE)>> ELSE <<>>)
                     \o <<Act("goto", 0, "", "", <<>>, <<>>, ok)>>
        /\ pf_pc' = IF ok THEN "fields" ELSE "raised"
    /\ UNCHANGED <<config, page, keep_open, fast, pf_i>>
    /\ UNCHANGED NotPf

InLoop == pf_pc = "fields" /\ pf_i <= Len(config)

f == config[pf_i]

Step(acts) ==
    /\ pf_log' = pf_log \o acts
    /\ IF Raised(acts)
       THEN pf_pc' = "raised" /\ pf_i' = pf_i
       ELSE pf_pc' = "fields" /\ pf_i' = pf_i + 1
    /\ UNCHANGED <<config, page, keep_open, fast>>
    /\ UNCHANGED NotPf

\* lines 25-33
FieldText ==
    /\ InLoop
    /\ f.type \in {"text", "paragraph"} /\ f.entry_id # ""
    /\ \E ok \in BOOLEAN :
         /\ pf_log' = pf_log \o
              (IF HasTextControl(page, f.entry_id)
               THEN <<Act("fill", pf_i, f.entry_id, "", <<>>, f.value, ok)>>
               ELSE <<>>)
         /\ pf_i' = pf_i + 1
    /\ UNCHANGED <<config, page, keep_open, fast, pf_pc>>
    /\ UNCHANGED NotPf

\* mutant: a value that fails the format check raises instead of being skipped
FieldDate_strict ==
    /\ InLoop
    /\ f.type = "date" /\ f.entry_id # ""
    /\ IF DateMatch(f.value)
       THEN \E fails \in 0..3 :
              Step(PartFills(page, pf_i, f.entry_id, DatePartsOf(f.value), fails))
       ELSE /\ pf_pc' = "raised"
            /\ UNCHANGED <<config, page, keep_open, fast, pf_i, pf_log>>
            /\ UNCHANGED NotPf

\* lines 34-40
FieldDate ==
    /\ InLoop
    /\ f.type = "date" /\ f.entry_id # ""
    /\ \E fails \in 0..3 :
         Step(IF DateMatch(f.value)
              THEN PartFills(page, pf_i, f.entry_id, DatePartsOf(f.value), fails)
              ELSE <<>>)

\* lines 41-47
FieldTime ==
    /\ InLoop
    /\ f.type = "time" /\ f.entry_id # ""
    /\ \E fails \in 0..2 :
         Step(IF TimeMatch(f.value)
              THEN PartFills(page, pf_i, f.entry_id, TimePartsOf(f.value), fails)
              ELSE <<>>)

\* lines 48-51
FieldDropdown ==
    /\ InLoop
    /\ f.type = "dropdown" /\ f.entry_id # ""
    /\ \E ok \in BOOLEAN :
         Step(IF HasSelect(page, f.entry_id)
              THEN <<Act("select_option", pf_i, f.entry_id, "", <<>>, f.value, ok)>>
              ELSE <<>>)

\* lines 52-59
FieldChoice ==
    /\ InLoop
    /\ f.type = "choice"
    /\ \E fails \in 0..2 :
         /\ pf_log' = pf_log \o
              (IF RoleMatches(page.radios, f.value) # {}
               THEN CheckActs(pf_i, f.value, fails)
               ELSE <<>>)
         /\ pf_i' = pf_i + 1
    /\ UNCHANGED <<config, page, keep_open, fast, pf_pc>>
    /\ UNCHANGED NotPf

\* lines 60-69
FieldCheckbox ==
    /\ InLoop
    /\ f.type = "checkbox"
    /\ \E fails \in 0..2 :
         /\ pf_log' = pf_log \o
              CheckboxActs(page, pf_i, IF f.isList THEN f.value ELSE <<f.value>>, fails)
         /\ pf_i' = pf_i + 1
    /\ UNCHANGED <<config, page, keep_open, fast, pf_pc>>
    /\ UNCHANGED NotPf

\* a field no branch of lines 25-60 takes (no entry_id)
FieldSkipped ==
    /\ InLoop
    /\ f.type \in {"text", "paragraph", "date", "time", "dropdown"} /\ f.entry_id = ""
    /\ pf_i' = pf_i + 1
    /\ UNCHANGED <<config, page, keep_open, fast, pf_pc, pf_log>>
    /\ UNCHANGED NotPf

\* lines 70-71
LoopDone ==
    /\ pf_pc = "fields" /\ pf_i > Len(config)
    /\ pf_pc' = IF keep_open THEN "idle" ELSE "closing"
    /\ UNCHANGED <<config, page, keep_open, fast, pf_i, pf_log>>
    /\ UNCHANGED NotPf

\* lines 72-79, run by asyncio.run (main.py line 28): the idle loop ends by
\* an exception raised at the await of line 74.  A page or browser closed
\* from outside raises an Exception, and a KeyboardInterrupt raised while the
\* coroutine itself runs is caught: both are swallowed.  A Ctrl-C that
\* asyncio.run answers by cancelling its task arrives as CancelledError, a
\* BaseException that neither except clause catches, and leaves prefill_form
IdleInterrupted ==
    /\ pf_pc = "idle"
    /\ \E exc \in {"Exception", "KeyboardInterrupt", "CancelledError"} :
          pf_pc' = IF exc = "CancelledError" THEN "raised" ELSE "closing"
    /\ UNCHANGED <<config, page, keep_open, fast, pf_i, pf_log>>
    /\ UNCHANGED NotPf

\* mutant: the form is submitted before the browser is closed
Close_submitting ==
    /\ pf_pc = "closing"
    /\ pf_log' = pf_log \o <<Act("click", 0, "", "", <<"S", "u", "b", "m", "i", "t">>, <<>>, TRUE),
                             Act("close_context", 0, "", "", <<>>, <<>>, TRUE),
                             Act("close_browser", 0, "", "", <<>>, <<>>, TRUE)>>
    /\ pf_pc' = "done"
    /\ UNCHANGED <<config, page, keep_open, fast, pf_i>>
    /\ UNCHANGED NotPf

\* line 80
Close ==
    /\ pf_pc = "closing"
    /\ pf_log' = pf_log \o <<Act("close_context", 0, "", "", <<>>, <<>>, TRUE),
                             Act("close_browser", 0, "", "", <<>>, <<>>, TRUE)>>
    /\ pf_pc' = "done"
    /\ UNCHANGED <<config, page, keep_open, fast, pf_i>>
    /\ UNCHANGED NotPf

PfNext ==
    \/ Goto
    \/ FieldText
    \/ FieldDate
    \/ FieldTime
    \/ FieldDropdown
    \/ FieldChoice
    \/ FieldCheckbox
    \/ FieldSkipped
    \/ LoopDone
    \/ IdleInterrupted
    \/ Close

SpecPrefill == PfInit /\ [][PfNext]_vars

----------------------------------------------------------------------------
(* Properties of prefill_form *)

\* the interactions made for the field at index i, in order
FieldLog(i) == SelectSeq(pf_log, LAMBDA a : a.i = i)

\* (suffix, value) of each interaction of field i
Entered(i) == [k \in 1..Len(FieldLog(i)) |-> <<FieldLog(i)[k].suf, FieldLog(i)[k].val>>]

\* the (suffix, value) pairs whose sub-field entry.<eid><suffix> is on the page
OnPage(eid, parts) == SelectSeq(parts, LAMBDA p : HasNamed(page, eid, p[1]))

IsPrefix(a, b) == Len(a) <= Len(b) /\ a = SubSeq(b, 1, Len(a))

\* YYYY-MM-DD
IsYMD(s) ==
    /\ Len(s) = 10
    /\ \A k \in {1, 2, 3, 4, 6, 7, 9, 10} : s[k] \in Digits
    /\ s[5] = "-" /\ s[8] = "-"

\* HH:MM with a two-digit hour
IsHHMM(s) ==
    /\ Len(s) = 5
    /\ \A k \in {1, 2, 4, 5} : s[k] \in Digits
    /\ s[3] = ":"

\* two digits without their leading zero
Unpadded(s) == IF s[1] = "0" THEN <<s[2]>> ELSE s

PageOps == {"goto", "fill", "select_option", "scroll", "check"}
ContextOps == {"route", "close_context", "close_browser"}

\* C3: prefill_form never submits the form: on every path (all field types,
\* keep-open, fast mode) the page interactions are navigation, fill,
\* select_option, scroll and check only, and nothing is ever clicked.
C3_NeverSubmits ==
    \A k \in 1..Len(pf_log) :
        /\ pf_log[k].op \in PageOps \cup ContextOps
        /\ pf_log[k].op # "click"

C3_Witness ==
    /\ pf_pc = "done" /\ keep_open /\ fast
    /\ \E k \in 1..Len(pf_log) : pf_log[k].op = "check"
    /\ \E k \in 1..Len(pf_log) : pf_log[k].op = "fill"

\* what the sub-field fills of field i must be, given the wanted parts: all
\* of them once the field is done, a prefix ending in the failed fill when a
\* fill raised, none before the loop reaches the field
PartsEntered(i, want) ==
    /\ \A k \in 1..Len(FieldLog(i)) :
          FieldLog(i)[k].op = "fill" /\ FieldLog(i)[k].eid = config[i].entry_id
    /\ i < pf_i => Entered(i) = want
    /\ i = pf_i => /\ IsPrefix(Entered(i), want)
                   /\ Entered(i) # <<>> => pf_pc = "raised"
    /\ i > pf_i => Entered(i) = <<>>

\* C4: a date field whose value matches YYYY-MM-DD is entered into the
\* sub-fields _year, _month, _day in that order, the year verbatim, month and
\* day without leading zero; a sub-field absent from the page is skipped and
\* the other two are still entered.
C4_DateParts ==
    \A i \in 1..Len(config) :
        LET v == config[i].value IN
        (config[i].type = "date" /\ config[i].entry_id # "" /\ IsYMD(v)) =>
            PartsEntered(i, OnPage(config[i].entry_id,
                << <<"_year", SubSeq(v, 1, 4)>>,
                   <<"_month", Unpadded(SubSeq(v, 6, 7))>>,
                   <<"_day", Unpadded(SubSeq(v, 9, 10))>> >>))

C4_Witness ==
    \E i \in 1..Len(config) :
        /\ i < pf_i
        /\ config[i].type = "date" /\ config[i].value = S_2025_06_09
        /\ ~HasNamed(page, "22", "_month")
        /\ Entered(i) = << <<"_year", <<"2", "0", "2", "5">> >>, <<"_day", <<"9">> >> >>

\* C5 as stated: the date value "2025-13-40" is rejected by the format check,
\* no year, month or day sub-field is filled for it.
C5_Rejected ==
    \A k \in 1..Len(pf_log) :
        pf_log[k].i >= 1 =>
            ~(config[pf_log[k].i].type = "date"
              /\ config[pf_log[k].i].value = S_2025_13_40)

\* C5 as amended: the date value "2025-13-40" passes the format check, which
\* tests the shape and not the calendar, and is entered as year 2025,
\* month 13, day 40 into the sub-fields present.
C5_Accepted ==
    \A i \in 1..Len(config) :
        (config[i].type = "date" /\ config[i].entry_id # ""
            /\ config[i].value = S_2025_13_40) =>
            PartsEntered(i, OnPage(config[i].entry_id,
                << <<"_year", <<"2", "0", "2", "5">> >>,
                   <<"_month", <<"1", "3">> >>,
                   <<"_day", <<"4", "0">> >> >>))

C5_Witness ==
    \E i \in 1..Len(config) :
        /\ i < pf_i
        /\ config[i].type = "date" /\ config[i].value = S_2025_13_40
        /\ Len(FieldLog(i)) = 3
        /\ FieldLog(i)[2].val = <<"1", "3">> /\ FieldLog(i)[2].ok

\* C6: a time field whose value matches HH:MM with a two-digit hour is
\* entered as hour without leading zero into _hour, then minute as two
\* digits into _minute; a value with a one-digit hour such as "9:45" fills
\* no sub-field.
C6_TimeParts ==
    \A i \in 1..Len(config) :
        LET v == config[i].value IN
        (config[i].type = "time" /\ config[i].entry_id # "") =>
            IF IsHHMM(v)
            THEN PartsEntered(i, OnPage(config[i].entry_id,
                    << <<"_hour", Unpadded(SubSeq(v, 1, 2))>>,
                       <<"_minute", SubSeq(v, 4, 5)>> >>))
            ELSE FieldLog(i) = <<>>

C6_Witness ==
    \E i, j \in 1..Len(config) :
        /\ i < pf_i /\ j < pf_i
        /\ config[i].type = "time" /\ config[i].value = S_09_45
        /\ Entered(i) = << <<"_hour", <<"9">> >>, <<"_minute", <<"4", "5">> >> >>
        /\ config[j].type = "time" /\ config[j].value = S_9_45
        /\ FieldLog(j) = <<>>

Malformed(fl) ==
    \/ fl.type = "date" /\ ~IsYMD(fl.value)
    \/ fl.type = "time" /\ ~IsHHMM(fl.value)

\* C7: a date or time value that does not match its format is non-fatal: the
\* step over that field fills nothing, raises nothing and leaves the loop at
\* the next field, so every later field is still processed.
C7_MalformedSkipped ==
    [][(InLoop /\ Malformed(f)) =>
          (pf_i' = pf_i + 1 /\ pf_pc' = "fields" /\ pf_log' = pf_log)]_vars

C7_Witness ==
    \E i \in 1..Len(config) :
        /\ Malformed(config[i])
        /\ pf_pc = "done"
        /\ \E k \in 1..Len(pf_log) : pf_log[k].i > i /\ pf_log[k].ok

\* how many times op occurs in the interactions lg
Times(lg, op) == Cardinality({k \in 1..Len(lg) : lg[k].op = op})

\* C20: with keep_open set, an interruption of the idle loop (keyboard
\* interrupt, or the page or browser closed from outside) makes prefill_form
\* go on to close and return without raising, and on every path on which it
\* returns the context and the browser were closed exactly once.
C20_IdleExitsCleanly ==
    [][ /\ pf_pc = "idle" => pf_pc' = "closing"
        /\ pf_pc' = "done" => /\ Times(pf_log', "close_context") = 1
                              /\ Times(pf_log', "close_browser") = 1 ]_vars

----------------------------------------------------------------------------
(* rpa/form_parser_gemini.py: call_gemini, _fallback_config, _guess_value,  *)
(* _extract_json_text, build_config_from_gemini                             *)

\* a field descriptor of summarize_form_fields (line 129)
Desc(eid, lbl, t, opts) ==
    [entry_id |-> eid, question_label |-> lbl, type |-> t, options |-> opts]

DescPool ==
    { Desc("1", <<"Y", "o", "u", "r", " ", "E", "m", "a", "i", "l">>, "text", <<>>),
      Desc("2", <<"N", "a", "m", "e">>, "text", <<>>),
      Desc("3", <<>>, "paragraph", <<>>),
      Desc("4", <<"A", "t", "t", "e", "n", "d">>, "choice", <<<<"N", "o">>, <<"Y", "e", "s">>>>),
      Desc("5", <<"P", "i", "c", "k">>, "checkbox", <<<<"A">>, <<"B">>>>),
      Desc("6", <<"D", "a", "y">>, "date", <<>>),
      Desc("7", <<"A", "t">>, "time", <<>>),
      Desc("8", <<"S", "i", "z", "e">>, "dropdown", <<>>) }

\* the dict of line 27 is keyed by entry id: descriptors have distinct ids
DistinctIds(q) == \A a, b \in 1..Len(q) : q[a].entry_id = q[b].entry_id => a = b

\* a JSON value of the profile or of a config entry: a string or a list of strings
StrVal(x) == [kind |-> "str", s |-> x, items |-> <<>>]
ListVal(l) == [kind |-> "list", s |-> <<>>, items |-> l]

\* BASIC_INFO profiles: free text per key, lists of strings for the selections
Profiles ==
    { <<>>,
      [k \in {"email", "first_name", "last_name", "date", "time", "choice", "selections"} |->
         CASE k = "email" -> StrVal(<<"a", "@", "b">>)
           [] k = "first_name" -> StrVal(<<"A", "l">>)
           [] k = "last_name" -> StrVal(<<"B", "o">>)
           [] k = "date" -> StrVal(<<"2", "0", "2", "5", "-", "0", "6", "-", "0", "9">>)
           [] k = "time" -> StrVal(<<"0", "9", ":", "4", "5">>)
           [] k = "choice" -> StrVal(<<" ", "Y", "E", "S", " ">>)
           [] k = "selections" -> ListVal(<<<<"b">>, <<"C">>, <<"A">>>>)],
      [k \in {"email", "mail", "name", "dob", "time", "answer", "options"} |->
         CASE k = "email" -> StrVal(<<>>)
           [] k = "mail" -> StrVal(<<"m", "@", "n">>)
           [] k = "name" -> StrVal(<<"A", "l", " ", "B", "o">>)
           [] k = "dob" -> StrVal(<<"9", " ", "J", "u", "n", "e">>)
           [] k = "time" -> StrVal(<<"9", ":", "4", "5">>)
           [] k = "answer" -> StrVal(<<"m", "a", "y", "b", "e">>)
           [] k = "options" -> StrVal(<<"B">>)],
      [k \in {"last_name", "birthday", "selections", "answers"} |->
         CASE k = "last_name" -> StrVal(<<"B", "o">>)
           [] k = "birthday" -> StrVal(<<"2", "0", "2", "5", "-", "0", "6", "-", "0", "9", "\n">>)
           [] k = "selections" -> ListVal(<<>>)
           [] k = "answers" -> ListVal(<<<<"A">>, <<"a">>>>)] }

\* Python truthiness of a profile value
Truthy(v) == IF v.kind = "str" THEN v.s # <<>> ELSE v.items # <<>>

RECURSIVE pick(_, _)
\* lines 166-170: the first key present with a value other than None and ''
pick(b, keys) ==
    IF keys = <<>> THEN StrVal(<<>>)
    ELSE IF keys[1] \in DOMAIN b /\ b[keys[1]] # StrVal(<<>>)
         THEN b[keys[1]]
         ELSE pick(b, Tail(keys))

\* basic.get(k), None and missing both falsy
Get(b, k) == IF k \in DOMAIN b THEN b[k] ELSE StrVal(<<>>)

\* lines 172-207: the free-text branch
GuessText(l, b) ==
    IF Contains(l, <<"e", "m", "a", "i", "l">>) THEN pick(b, <<"email", "mail">>)
    ELSE IF Contains(l, <<"p", "h", "o", "n", "e">>) \/ Contains(l, <<"m", "o", "b", "i", "l", "e">>)
    THEN pick(b, <<"phone", "phone_number", "mobile">>)
    ELSE IF Contains(l, <<"f", "i", "r", "s", "t", " ", "n", "a", "m", "e">>)
    THEN pick(b, <<"first_name", "firstname", "given_name", "name_first">>)
    ELSE IF Contains(l, <<"l", "a", "s", "t", " ", "n", "a", "m", "e">>) \/ Contains(l, <<"s", "u", "r", "n", "a", "m", "e">>)
    THEN pick(b, <<"last_name", "lastname", "family_name", "name_last">>)
    ELSE IF Contains(l, <<"n", "a", "m", "e">>)
    THEN LET full == pick(b, <<"name", "full_name">>)
             fn == pick(b, <<"first_name", "firstname">>)
             ln == pick(b, <<"last_name", "lastname">>)
         IN  IF Truthy(full) THEN full
             ELSE StrVal(strip(fn.s \o <<" ">> \o ln.s))
    ELSE IF Contains(l, <<"c", "o", "m", "p", "a", "n", "y">>) \/ Contains(l, <<"o", "r", "g", "a", "n", "i", "z", "a", "t", "i", "o", "n">>)
            \/ Contains(l, <<"o", "r", "g", "a", "n", "i", "s", "a", "t", "i", "o", "n">>)
    THEN pick(b, <<"company", "organization", "organisation", "employer">>)
    ELSE IF Contains(l, <<"t", "i", "t", "l", "e">>) \/ Contains(l, <<"r", "o", "l", "e">>) \/ Contains(l, <<"p", "o", "s", "i", "t", "i", "o", "n">>)
    THEN pick(b, <<"title", "role", "position", "job_title">>)
    ELSE IF Contains(l, <<"c", "i", "t", "y">>) THEN pick(b, <<"city">>)
    ELSE IF Contains(l, <<"s", "t", "a", "t", "e">>) \/ Contains(l, <<"p", "r", "o", "v", "i", "n", "c", "e">>)
    THEN pick(b, <<"state", "province">>)
    ELSE IF Contains(l, <<"c", "o", "u", "n", "t", "r", "y">>) THEN pick(b, <<"country">>)
    ELSE IF Contains(l, <<"z", "i", "p">>) \/ Contains(l, <<"p", "o", "s", "t", "a", "l">>)
    THEN pick(b, <<"zip", "postal", "postal_code", "zip_code">>)
    ELSE IF Contains(l, <<"a", "d", "d", "r", "e", "s", "s">>) THEN pick(b, <<"address", "street">>)
    ELSE IF Contains(l, <<"w", "e", "b", "s", "i", "t", "e">>) \/ Contains(l, <<"u", "r", "l">>)
    THEN pick(b, <<"website", "url">>)
    ELSE IF Contains(l, <<"m", "e", "s", "s", "a", "g", "e">>) \/ Contains(l, <<"c", "o", "m", "m", "e", "n", "t", "s">>) \/ Contains(l, <<"n", "o", "t", "e", "s">>)
    THEN pick(b, <<"message", "notes", "comment">>)
    ELSE StrVal(<<>>)

\* mutant: the hint is returned as the profile has it
OptionMatches_hint(options, v) ==
    IF SelectSeq(options, LAMBDA o : lower(strip(o)) = lower(strip(v))) = <<>>
    THEN <<>> ELSE <<v>>

\* lines 218-220: the options equal to v up to case and surrounding blanks
OptionMatches(options, v) ==
    SelectSeq(options, LAMBDA o : lower(strip(o)) = lower(strip(v)))

RECURSIVE KeepMatches(_, _)
\* lines 227-232: for each selection in turn, every option matching it
KeepMatches(sel, options) ==
    IF sel = <<>> THEN <<>>
    ELSE OptionMatches(options, sel[1]) \o KeepMatches(Tail(sel), options)

\* lines 161-233
GuessValue(label, ftype, options, b) ==
    LET l == lower(label) IN
    IF ftype \in {"text", "paragraph"} THEN GuessText(l, b)
    ELSE IF ftype = "date"
    THEN LET v == pick(b, <<"date", "dob", "birthday">>)
         IN  IF v.kind = "str" /\ DateMatch(v.s) THEN v ELSE StrVal(<<>>)
    ELSE IF ftype = "time"
    THEN LET v == pick(b, <<"time">>)
         IN  IF v.kind = "str" /\ TimeMatch(v.s) THEN v ELSE StrVal(<<>>)
    ELSE IF ftype \in {"dropdown", "choice"}
    THEN LET v == pick(b, <<"choice", "selection", "option", "answer", "value">>)
             hit == IF v.kind = "str" THEN OptionMatches(options, v.s) ELSE <<>>
         IN  IF hit # <<>> THEN StrVal(hit[1])
             ELSE IF options # <<>> THEN StrVal(options[1]) ELSE StrVal(<<>>)
    ELSE IF ftype = "checkbox"
    THEN LET a == Get(b, "selections")
             o == Get(b, "options")
             n == Get(b, "answers")
             v == IF Truthy(a) THEN a ELSE IF Truthy(o) THEN o
                  ELSE IF Truthy(n) THEN n ELSE ListVal(<<>>)
             sel == IF v.kind = "str" THEN <<v.s>> ELSE v.items
         IN  ListVal(KeepMatches(sel, options))
    ELSE StrVal(<<>>)

\* lines 246-252: one entry of the returned config
Entry(eid, ql, t, val, hints) ==
    [entry_id |-> eid, question_label |-> ql, type |-> t, value |-> val,
     option_hints |-> hints]

\* lines 239-252: the entry made for one descriptor
FallbackEntry(d, b) ==
    LET val == GuessValue(d.question_label, d.type, d.options, b)
    IN  Entry(d.entry_id, d.question_label, d.type,
              IF d.type = "checkbox" /\ val.kind # "list"
              THEN (IF Truthy(val) THEN ListVal(<<val.s>>) ELSE ListVal(<<>>))
              ELSE val,
              d.options)

\* mutant: descriptors for which nothing could be guessed are left out
FallbackConfig_guessed(url, summ, b) ==
    [form_url |-> url,
     fields |-> SelectSeq([k \in 1..Len(summ) |-> FallbackEntry(summ[k], b)],
                          LAMBDA e : Truthy(e.value))]

\* lines 236-253
FallbackConfig(url, summ, b) ==
    [form_url |-> url, fields |-> [k \in 1..Len(summ) |-> FallbackEntry(summ[k], b)]]

(* Model output.  A reply is a sequence of tokens: "FENCE" a code fence of *)
(* three backquotes,                                                        *)
(* "json" the fence's language tag, "{" "}" "[" "]" brackets, " " and "\n"  *)
(* blanks, "x" prose, and member tokens standing for one key: value pair    *)
(* of an object:                                                            *)
(*   "fields_all"   "fields": [an entry for every descriptor]               *)
(*   "fields_none"  "fields": []                                            *)
(*   "fields_str"   "fields": "x"                                           *)
(*   "other"        "a": 1                                                  *)

Members == {"fields_all", "fields_none", "fields_str", "other"}

NoText == [ok |-> FALSE, text |-> <<>>]

\* position of the first t in s at or after k (0: none)
Find(s, t, k) ==
    IF \E p \in k..Len(s) : s[p] = t
    THEN CHOOSE p \in k..Len(s) : s[p] = t /\ \A q \in k..(p - 1) : s[q] # t
    ELSE 0

\* position of the last t in s (0: none)
RFind(s, t) ==
    IF \E p \in 1..Len(s) : s[p] = t
    THEN CHOOSE p \in 1..Len(s) : s[p] = t /\ \A q \in (p + 1)..Len(s) : s[q] # t
    ELSE 0

\* lines 142-146: the text between the first code fence (and its optional
\* json tag) and the next one, stripped
FenceCandidate(s) ==
    LET p == Find(s, "FENCE", 1)
        q == IF p = 0 THEN 0 ELSE Find(s, "FENCE", p + 1)
        from == IF p > 0 /\ p < Len(s) /\ s[p + 1] = "json" THEN p + 2 ELSE p + 1
    IN  IF q = 0 THEN <<>> ELSE strip(SubSeq(s, from, q - 1))

\* lines 132-158; ok = FALSE stands for the ValueError
ExtractJsonText(txt) ==
    IF txt = <<>> THEN NoText
    ELSE LET s == strip(txt)
             first == Find(s, "{", 1)
             last == RFind(s, "}")
         IN  IF FenceCandidate(s) # <<>> THEN [ok |-> TRUE, text |-> FenceCandidate(s)]
             ELSE IF first > 0 /\ s[Len(s)] = "}" /\ first < Len(s)
             THEN [ok |-> TRUE, text |-> SubSeq(s, first, Len(s))]
             ELSE IF first > 0 /\ last > first
             THEN [ok |-> TRUE, text |-> SubSeq(s, first, last)]
             ELSE NoText

\* a parsed JSON document, as far as line 336 looks at it
Json(kind, isList, fields) == [kind |-> kind, fieldsIsList |-> isList, fields |-> fields]

\* the entries a complete reply gives: one per descriptor
CompleteFields(summ) ==
    [k \in 1..Len(summ) |->
        Entry(summ[k].entry_id, summ[k].question_label, summ[k].type,
              IF summ[k].type = "checkbox" THEN ListVal(<<>>) ELSE StrVal(<<"x">>),
              summ[k].options)]

\* line 334: json.loads; kind "raise" stands for the JSONDecodeError
JsonLoads(t, summ) ==
    LET s == strip(t) IN
    IF s = <<"[", "]">> THEN Json("list", FALSE, <<>>)
    ELSE IF s = <<"{", "}">> THEN Json("dict", FALSE, <<>>)
    ELSE IF Len(s) = 3 /\ s[1] = "{" /\ s[3] = "}" /\ s[2] \in Members
    THEN CASE s[2] = "fields_all" -> Json("dict", TRUE, CompleteFields(summ))
           [] s[2] = "fields_none" -> Json("dict", TRUE, <<>>)
           [] OTHER -> Json("dict", FALSE, <<>>)
    ELSE Json("raise", FALSE, <<>>)

\* what generate_content does: raise, or a response with a text and candidate parts
Resp(raises, text, parts) == [raises |-> raises, text |-> text, parts |-> parts]

Replies ==
    { <<>>,
      <<"x">>,
      <<"{", "fields_all", "}">>,
      <<"{", "fields_none", "}">>,
      <<"{", "fields_str", "}">>,
      <<"{", "}">>,
      <<"[", "]">>,
      <<"FENCE", "json", "\n", "{", "fields_all", "}", "\n", "FENCE">>,
      <<"FENCE", "[", "]", "FENCE", "x">>,
      <<"FENCE", " ", "FENCE", " ", "{", "fields_all", "}", "\n">>,
      <<"x", "{", "fields_all", "}", "x">>,
      <<"{", "other", "}", "x", "{", "fields_all", "}">> }

Resps ==
    {Resp(TRUE, <<>>, <<>>)}
    \cup {Resp(FALSE, t, <<>>) : t \in Replies}
    \cup {Resp(FALSE, <<>>, << <<"{", "fields_all">>, <<"}">> >>),
          Resp(FALSE, <<>>, << <<"x">> >>)}

RECURSIVE JoinLines(_)
\* line 327: the parts joined by newlines
JoinLines(parts) ==
    IF parts = <<>> THEN <<>>
    ELSE IF Len(parts) = 1 THEN parts[1]
    ELSE parts[1] \o <<"\n">> \o JoinLines(Tail(parts))

\* lines 316-329: the response text, else the candidates' parts joined
ResponseText(r) == IF r.text # <<>> THEN r.text ELSE JoinLines(r.parts)

form_url == <<"u">>

GmInit ==
    /\ PfIdle /\ SlIdle /\ PrIdle /\ CsIdle /\ AtIdle /\ SmIdle /\ LgIdle /\ TpIdle
    /\ summary \in {q \in SeqsUpTo(DescPool, MaxDesc) : DistinctIds(q)}
    /\ basic \in Profiles
    /\ api \in BOOLEAN
    /\ resp \in Resps
    /\ gm_pc = "call"
    /\ cfg = <<>>

Return(c) ==
    /\ cfg' = c
    /\ gm_pc' = "returned"
    /\ UNCHANGED <<summary, basic, api, resp>>
    /\ UNCHANGED NotGm

\* lines 298-300
CallNoKey ==
    /\ gm_pc = "call" /\ ~api
    /\ Return(FallbackConfig(form_url, summary, basic))

\* lines 302-313
CallRaises ==
    /\ gm_pc = "call" /\ api /\ resp.raises
    /\ Return(FallbackConfig(form_url, summary, basic))

Extracted == ExtractJsonText(ResponseText(resp))
Parsed == JsonLoads(Extracted.text, summary)

\* lines 332-334, 341-346: _extract_json_text or json.loads raises
CallNoJson ==
    /\ gm_pc = "call" /\ api /\ ~resp.raises
    /\ ~Extracted.ok \/ Parsed.kind = "raise"
    /\ Return(FallbackConfig(form_url, summary, basic))

\* lines 336, 338-340
CallBadSchema ==
    /\ gm_pc = "call" /\ api /\ ~resp.raises
    /\ Extracted.ok /\ Parsed.kind # "raise"
    /\ ~(Parsed.kind = "dict" /\ Parsed.fieldsIsList)
    /\ Return(FallbackConfig(form_url, summary, basic))

\* lines 336-337: the parsed reply is returned as it is
CallParsed ==
    /\ gm_pc = "call" /\ api /\ ~resp.raises
    /\ Extracted.ok /\ Parsed.kind = "dict" /\ Parsed.fieldsIsList
    /\ Return([form_url |-> <<>>, fields |-> Parsed.fields])

\* lines 351-354
SetFormUrl ==
    /\ gm_pc = "returned"
    /\ cfg' = [cfg EXCEPT !.form_url = form_url]
    /\ gm_pc' = "built"
    /\ UNCHANGED <<summary, basic, api, resp>>
    /\ UNCHANGED NotGm

GmNext ==
    \/ CallNoKey
    \/ CallRaises
    \/ CallNoJson
    \/ CallBadSchema
    \/ CallParsed
    \/ SetFormUrl

SpecGemini == GmInit /\ [][GmNext]_vars

----------------------------------------------------------------------------
(* Properties of call_gemini and build_config_from_gemini *)

\* the model path succeeded: a key is set, generate_content returned, and
\* its text holds a JSON object with a list "fields"
ModelPathOK ==
    /\ api /\ ~resp.raises
    /\ Extracted.ok
    /\ Parsed.kind = "dict" /\ Parsed.fieldsIsList

\* C1: whenever the model path fails (no key, generate_content raises, no
\* parseable JSON in the reply, or JSON that is no object with a list
\* "fields"), call_gemini does not raise and returns the fallback config:
\* one entry per descriptor of the summary, in the same order, with the same
\* entry_id and type.
C1_FallbackComplete ==
    /\ gm_pc # "raised"
    /\ (gm_pc \in {"returned", "built"} /\ ~ModelPathOK) =>
          /\ Len(cfg.fields) = Len(summary)
          /\ \A k \in 1..Len(summary) :
                /\ cfg.fields[k].entry_id = summary[k].entry_id
                /\ cfg.fields[k].type = summary[k].type

C1_Witness ==
    /\ gm_pc = "returned"
    /\ api /\ ~resp.raises /\ Extracted.ok /\ Parsed.kind = "raise"
    /\ Len(summary) = 2 /\ Len(cfg.fields) = 2
    /\ \E k \in 1..2 : ~Truthy(cfg.fields[k].value)

\* C2: for every outcome of the model call, the config build_config_from_gemini
\* returns has an entry for every field descriptor of the summary.
C2_AlwaysComplete ==
    gm_pc = "built" =>
        \A k \in 1..Len(summary) :
            \E j \in 1..Len(cfg.fields) : cfg.fields[j].entry_id = summary[k].entry_id

HintKeys == {"choice", "selection", "option", "answer", "value"}

\* s without the one newline it may end in, which a pattern's "$" lets pass
Chomp(s) == IF s # <<>> /\ s[Len(s)] = "\n" THEN SubSeq(s, 1, Len(s) - 1) ELSE s

\* s matches the pattern YYYY-MM-DD
IsDateText(s) ==
    /\ Len(Chomp(s)) = 10
    /\ \A k \in {1, 2, 3, 4, 6, 7, 9, 10} : s[k] \in Digits
    /\ s[5] = "-" /\ s[8] = "-"

\* s matches the pattern HH:MM
IsTimeText(s) ==
    /\ Len(Chomp(s)) = 5
    /\ \A k \in {1, 2, 4, 5} : s[k] \in Digits
    /\ s[3] = ":"

LastObject(s) ==
    LET last == RFind(s, "}")
        open == RFind(SubSeq(s, 1, last), "{")
    IN  IF last = 0 \/ open = 0 THEN NoText
        ELSE [ok |-> TRUE, text |-> SubSeq(s, open, last)]

\* C22: _extract_json_text returns the content of the first code fence when
\* it is not empty, otherwise the last brace-delimited object of the text
\* (of several separate objects only the final one), and raises ValueError
\* when the text is empty or holds no brace-delimited object.
C22_LastObject ==
    (gm_pc # "call" /\ api /\ ~resp.raises) =>
        LET txt == ResponseText(resp)
        IN  Extracted = IF txt = <<>> THEN NoText
                        ELSE IF FenceCandidate(strip(txt)) # <<>>
                        THEN [ok |-> TRUE, text |-> FenceCandidate(strip(txt))]
                        ELSE LastObject(strip(txt))

----------------------------------------------------------------------------
(* prac/main.py: the form as Selenium sees it, _find_in_question_container, *)
(* select_checkboxes, fill_text_field                                       *)

\* a control of the form: an input, a textarea or a div with a role
Control(tag, aria, checked) == [tag |-> tag, aria |-> aria, checked |-> checked]

\* a question block, div role=listitem: the normalized texts of the elements
\* in it, and its controls in document order
Block(texts, controls) == [texts |-> texts, controls |-> controls]

None == <<0, 0>>

RECURSIVE AllControls(_, _)
\* the controls of the form from block b on, in document order, as (block, index)
AllControls(d, b) ==
    IF b > Len(d) THEN <<>>
    ELSE [c \in 1..Len(d[b].controls) |-> <<b, c>>] \o AllControls(d, b + 1)

At(d, e) == d[e[1]].controls[e[2]]

\* an XPath over the controls: the tag or role ("text": input | textarea),
\* and the test of aria-label ("=", "contains", or "any": none) against v
XPath(tag, test, v) == [tag |-> tag, test |-> test, v |-> v]

Matches(xp, c) ==
    /\ IF xp.tag = "text" THEN c.tag \in {"input", "textarea"} ELSE c.tag = xp.tag
    /\ CASE xp.test = "=" -> c.aria = xp.v
         [] xp.test = "contains" -> Contains(c.aria, xp.v)
         [] OTHER -> TRUE

\* driver.find_element: the first control in document order that matches
FindElement(d, xp) ==
    LET hits == SelectSeq(AllControls(d, 1), LAMBDA e : Matches(xp, At(d, e)))
    IN  IF hits = <<>> THEN None ELSE hits[1]

\* lines 92-102: the first listitem holding an element whose text is the
\* label and a control matching the inner XPath gives its first such control
FindInQuestionContainer(d, label, xp) ==
    LET hits == SelectSeq(AllControls(d, 1),
                          LAMBDA e : label \in d[e[1]].texts /\ Matches(xp, At(d, e)))
    IN  IF hits = <<>> THEN None ELSE hits[1]

\* el.click() on a checkbox toggles aria-checked
Click(d, e) ==
    [d EXCEPT ![e[1]].controls[e[2]].checked = ~d[e[1]].controls[e[2]].checked]

\* lines 173-183: container scope, then global exact aria-label, then contains
FindCheckbox(d, label, opt) ==
    LET exact == XPath("checkbox", "=", opt)
        partly == XPath("checkbox", "contains", opt)
    IN  IF FindInQuestionContainer(d, label, exact) # None
        THEN FindInQuestionContainer(d, label, exact)
        ELSE IF FindElement(d, exact) # None THEN FindElement(d, exact)
        ELSE FindElement(d, partly)

\* mutant: the option is clicked whatever its aria-checked says
NeedsClick_always(d, e) == TRUE

\* lines 186-187: aria-checked is not "true"
NeedsClick(d, e) == ~At(d, e).checked

RECURSIVE SelectCheckboxes_stopping(_, _, _, _)
\* mutant: the first option that is not found ends the loop
SelectCheckboxes_stopping(d, label, opts, k) ==
    IF k > Len(opts) THEN [dom |-> d, clicks |-> <<>>, success |-> TRUE]
    ELSE LET opt == strip(opts[k]) IN
         IF opt = <<>> THEN SelectCheckboxes_stopping(d, label, opts, k + 1)
         ELSE LET el == FindCheckbox(d, label, opt)
                  click == NeedsClick(d, el)
                  rest == SelectCheckboxes_stopping(IF click THEN Click(d, el) ELSE d,
                                                    label, opts, k + 1)
              IN  IF el = None THEN [dom |-> d, clicks |-> <<>>, success |-> FALSE]
                  ELSE [dom |-> rest.dom,
                        clicks |-> (IF click THEN <<el>> ELSE <<>>) \o rest.clicks,
                        success |-> rest.success]

RECURSIVE SelectCheckboxes(_, _, _, _)
\* lines 167-191; the form, the clicks made and the success flag after the
\* options from index k on
SelectCheckboxes(d, label, opts, k) ==
    IF k > Len(opts) THEN [dom |-> d, clicks |-> <<>>, success |-> TRUE]
    ELSE LET opt == strip(opts[k]) IN
         IF opt = <<>> THEN SelectCheckboxes(d, label, opts, k + 1)
         ELSE LET el == FindCheckbox(d, label, opt)
                  click == el # None /\ NeedsClick(d, el)
                  rest == SelectCheckboxes(IF click THEN Click(d, el) ELSE d,
                                           label, opts, k + 1)
              IN  [dom |-> rest.dom,
                   clicks |-> (IF click THEN <<el>> ELSE <<>>) \o rest.clicks,
                   success |-> (el # None) /\ rest.success]

S_Q == <<"Q">>

CbBlocks ==
    { Block({S_Q}, <<Control("checkbox", <<"A">>, FALSE), Control("checkbox", <<"B">>, TRUE)>>),
      Block({S_Q}, <<Control("checkbox", <<"A", "B">>, TRUE)>>),
      Block({}, <<Control("checkbox", <<"A">>, TRUE), Control("checkbox", <<"B", "A">>, FALSE)>>),
      Block({<<"R">>}, <<Control("checkbox", <<"B">>, FALSE)>>),
      Block({S_Q}, <<Control("input", <<"A">>, FALSE)>>) }

CbOptions == {<<"A">>, <<" ", "A">>, <<"B">>, <<>>, <<"C">>}

CbInit ==
    /\ PfIdle /\ GmIdle /\ PrIdle /\ CsIdle /\ AtIdle /\ SmIdle /\ LgIdle /\ TpIdle
    /\ dom \in SeqsUpTo(CbBlocks, MaxBlocks)
    /\ question_label = S_Q
    /\ option_values \in SeqsUpTo(CbOptions, MaxOpts)
    /\ sel_pc = "ready"
    /\ clicks = <<>>
    /\ dom_before = dom
    /\ filled = None
    /\ result = FALSE

\* a call select_checkboxes(driver, question_label, option_values)
Select(from, to) ==
    /\ sel_pc = from
    /\ LET r == SelectCheckboxes(dom, question_label, option_values, 1) IN
         /\ dom' = r.dom
         /\ clicks' = Append(clicks, r.clicks)
         /\ result' = r.success
    /\ dom_before' = dom
    /\ sel_pc' = to
    /\ UNCHANGED <<question_label, option_values, filled>>
    /\ UNCHANGED NotSl

\* line 270: the call made for a checkbox column
SelectFirst == Select("ready", "called")

\* the same call made once more on the form as the first call left it
SelectAgain == Select("called", "again")

CbNext ==
    \/ SelectFirst
    \/ SelectAgain

SpecCheckbox == CbInit /\ [][CbNext]_vars

\* lines 66-70
CandidateLabelVariants(label) ==
    LET base == strip(label)
    IN  <<base, base \o <<" ", "(Required)">>, base \o <<" ", "*">>, base \o <<"*">>>>

RECURSIVE Locators(_)
\* lines 108-117: the global locators, four per variant, in list order
Locators(variants) ==
    IF variants = <<>> THEN <<>>
    ELSE << XPath("input", "=", variants[1]),
            XPath("textarea", "=", variants[1]),
            XPath("input", "contains", variants[1]),
            XPath("textarea", "contains", variants[1]) >> \o Locators(Tail(variants))

\* line 122: ".//input | .//textarea"
AnyText == XPath("text", "any", <<>>)

IsTextControl(c) == c.tag \in {"input", "textarea"}

RECURSIVE FirstScoped(_, _)
\* lines 120-130: the first variant whose question container holds a text control
FirstScoped(d, variants) ==
    IF variants = <<>> THEN None
    ELSE IF FindInQuestionContainer(d, variants[1], AnyText) # None
         THEN FindInQuestionContainer(d, variants[1], AnyText)
         ELSE FirstScoped(d, Tail(variants))

RECURSIVE FirstLocated(_, _)
\* lines 133-143: the first locator of the list that finds an element
FirstLocated(d, xps) ==
    IF xps = <<>> THEN None
    ELSE LET el == FindElement(d, xps[1])
         IN  IF el # None THEN el ELSE FirstLocated(d, Tail(xps))

S_N == <<"N">>

TfControls ==
    { <<>>,
      <<Control("input", S_N, FALSE)>>,
      <<Control("input", <<"N", " ", "(Required)">>, FALSE)>>,
      <<Control("textarea", <<"N", " ", "*">>, FALSE)>>,
      <<Control("input", <<"N", "*">>, FALSE)>>,
      <<Control("input", <<"F", " ", "N">>, FALSE)>>,
      <<Control("input", <<"M">>, FALSE)>> }

\* a block titled N holds the control of question N; other blocks hold any
TfBlocks ==
    {Block({}, c) : c \in TfControls}
    \cup {Block({S_N}, c) : c \in {x \in TfControls :
                                     \A k \in 1..Len(x) : x[k].aria[1] = "N"}}

TfInit ==
    /\ PfIdle /\ GmIdle /\ PrIdle /\ CsIdle /\ AtIdle /\ SmIdle /\ LgIdle /\ TpIdle
    /\ dom \in SeqsUpTo(TfBlocks, MaxBlocks)
    /\ question_label \in {S_N, <<" ", "N", " ">>}
    /\ option_values = <<>>
    /\ sel_pc = "ready"
    /\ clicks = <<>>
    /\ dom_before = dom
    /\ filled = None
    /\ result = FALSE

Filled(el) ==
    /\ filled' = el
    /\ result' = (el # None)
    /\ sel_pc' = "called"
    /\ UNCHANGED <<dom, question_label, option_values, clicks, dom_before>>
    /\ UNCHANGED NotSl

Variants == CandidateLabelVariants(question_label)

\* lines 120-130: filled through the question container
FillScoped ==
    /\ sel_pc = "ready"
    /\ FirstScoped(dom, Variants) # None
    /\ Filled(FirstScoped(dom, Variants))

\* lines 133-141: filled through a global locator
FillLocated ==
    /\ sel_pc = "ready"
    /\ FirstScoped(dom, Variants) = None
    /\ FirstLocated(dom, Locators(Variants)) # None
    /\ Filled(FirstLocated(dom, Locators(Variants)))

\* line 144
FillNotFound ==
    /\ sel_pc = "ready"
    /\ FirstScoped(dom, Variants) = None
    /\ FirstLocated(dom, Locators(Variants)) = None
    /\ Filled(None)

TfNext ==
    \/ FillScoped
    \/ FillLocated
    \/ FillNotFound

SpecTextField == TfInit /\ [][TfNext]_vars

----------------------------------------------------------------------------
(* Properties of select_checkboxes and fill_text_field *)

Checked(d) == {e \in {AllControls(d, 1)[k] : k \in 1..Len(AllControls(d, 1))} : At(d, e).checked}

LastClicks == clicks[Len(clicks)]

\* C8: select_checkboxes clicks an option only when it is not checked: no
\* call clicks a control that was checked or clicks a control twice (the same
\* option listed twice), no checked box is ever toggled off, and a second
\* call with the same options clicks nothing.
C8_CheckboxIdempotent ==
    sel_pc \in {"called", "again"} =>
        /\ \A k \in 1..Len(LastClicks) : LastClicks[k] \notin Checked(dom_before)
        /\ \A j, k \in 1..Len(LastClicks) : LastClicks[j] = LastClicks[k] => j = k
        /\ Checked(dom_before) \subseteq Checked(dom)
        /\ sel_pc = "again" => LastClicks = <<>> /\ dom = dom_before

C8_Witness ==
    /\ sel_pc = "again"
    /\ option_values = <<<<" ", "A">>, <<"A">>>>
    /\ Len(clicks[1]) = 1 /\ clicks[2] = <<>>

\* the options of the call that are not blank, stripped
NonBlank == {strip(option_values[k]) : k \in 1..Len(option_values)} \ {<<>>}

\* the checkbox an option stands for on the form the call started on
Target(opt) == FindCheckbox(dom_before, question_label, opt)

\* C26: select_checkboxes treats each option on its own: an option that is
\* not found does not end the call, the options after it are still looked
\* up (container, then global exact, then global contains) and clicked when
\* unchecked; blank options are ignored; the result is True exactly when
\* every option that is not blank was found.
C26_OptionsIndependent ==
    sel_pc = "called" =>
        /\ result <=> \A opt \in NonBlank : Target(opt) # None
        /\ \A opt \in NonBlank : Target(opt) # None => At(dom, Target(opt)).checked
        /\ {LastClicks[k] : k \in 1..Len(LastClicks)}
              = {Target(opt) : opt \in NonBlank} \ (Checked(dom_before) \cup {None})
        /\ \A opt \in NonBlank :
              LET inside == {e \in {AllControls(dom, 1)[k] : k \in 1..Len(AllControls(dom, 1))} :
                               /\ At(dom, e).tag = "checkbox" /\ At(dom, e).aria = opt
                               /\ question_label \in dom[e[1]].texts}
                  exact == {e \in {AllControls(dom, 1)[k] : k \in 1..Len(AllControls(dom, 1))} :
                               At(dom, e).tag = "checkbox" /\ At(dom, e).aria = opt}
              IN  /\ inside # {} => Target(opt) \in inside
                  /\ (inside = {} /\ exact # {}) => Target(opt) \in exact

\* a call whose first option is on no checkbox and whose second option is
\* found unchecked and clicked
C26_Witness ==
    /\ sel_pc = "called"
    /\ option_values = <<<<"C">>, <<"A">>>>
    /\ ~result
    /\ Len(LastClicks) = 1

VariantSet == {Variants[k] : k \in 1..Len(Variants)}

\* C9: when the form has a text control whose aria-label is one of the
\* variants L, "L (Required)", "L *", "L*" of the label, fill_text_field
\* returns True and the control it filled is one with such an aria-label.
C9_FindsVariant ==
    (sel_pc = "called" /\ option_values = <<>>
       /\ \E k \in 1..Len(AllControls(dom, 1)) :
            LET c == At(dom, AllControls(dom, 1)[k])
            IN  IsTextControl(c) /\ c.aria \in VariantSet) =>
        /\ result
        /\ filled # None
        /\ At(dom, filled).aria \in VariantSet

\* a text control whose aria-label is exactly one of the variants exists
ExactExists ==
    \E k \in 1..Len(AllControls(dom, 1)) :
        LET c == At(dom, AllControls(dom, 1)[k])
        IN  IsTextControl(c) /\ c.aria \in VariantSet

\* C21: fill_text_field stops at the first strategy that finds a control: at
\* most one control receives the value, and False is returned, with no
\* interaction, exactly when nothing matches; through the global locators an
\* exact aria-label match under any variant is preferred, and a substring
\* match is used only when no exact match exists for any variant.
C21_ExactBeforeContains ==
    (sel_pc = "called" /\ option_values = <<>>) =>
        /\ result <=> filled # None
        /\ ~result => /\ FirstScoped(dom, Variants) = None
                      /\ \A k \in 1..Len(Locators(Variants)) :
                            FindElement(dom, Locators(Variants)[k]) = None
        /\ (result /\ FirstScoped(dom, Variants) = None /\ ExactExists) =>
               At(dom, filled).aria \in VariantSet

----------------------------------------------------------------------------
(* prac/main.py: parse_row_types *)

\* Python s.endswith(suf)
EndsWith(s, suf) ==
    Len(s) >= Len(suf) /\ SubSeq(s, Len(s) - Len(suf) + 1, Len(s)) = suf

RECURSIVE Split(_, _)
\* Python s.split(sep), sep one character
Split(s, sep) ==
    LET p == Find(s, sep, 1)
    IN  IF p = 0 THEN <<s>>
        ELSE <<SubSeq(s, 1, p - 1)>> \o Split(SubSeq(s, p + 1, Len(s)), sep)

S_choice == <<"(", "c", "h", "o", "i", "c", "e", ")">>
S_multi == <<"(", "m", "u", "l", "t", "i", ")">>

\* a value of a DictReader row: a string, or None for a short line
Cell(s) == [none |-> FALSE, s |-> s]
NoCell == [none |-> TRUE, s |-> <<>>]

Column(key, val) == [key |-> key, val |-> val]

Headers == {<<"a">>, <<" ", "a", " ">>, <<"a", " ", "(", "c", "h", "o", "i", "c", "e", ")">>, <<"a", "(", "C", "H", "O", "I", "C", "E", ")", " ">>, <<"b", " ", "(", "m", "u", "l", "t", "i", ")">>, <<"(", "M", "u", "l", "t", "i", ")">>, <<" ">>}

Cells == {Cell(<<"v">>), Cell(<<" ">>), NoCell, Cell(<<"x", ";", " ", "y", ";">>), Cell(<<";">>)}

\* the row is a dict: its headers are distinct
DistinctKeys(r) == \A a, b \in 1..Len(r) : r[a].key = r[b].key => a = b

\* dict assignment m[k] = v
Put(m, k, v) == [x \in DOMAIN m \cup {k} |-> IF x = k THEN v ELSE m[x]]

PrInit ==
    /\ PfIdle /\ GmIdle /\ SlIdle /\ CsIdle /\ AtIdle /\ SmIdle /\ LgIdle /\ TpIdle
    /\ row \in {r \in SeqsUpTo({Column(k, v) : k \in Headers, v \in Cells}, MaxCols) :
                  DistinctKeys(r)}
    /\ pr_pc = "loop"
    /\ pr_i = 1
    /\ text_fields = <<>> /\ radio_fields = <<>> /\ checkbox_fields = <<>>

\* lines 236-237 for the column the loop is at
k_stripped == strip(row[pr_i].key)
v_stripped == strip(row[pr_i].val.s)

InRow == pr_pc = "loop" /\ pr_i <= Len(row)

\* lines 234-239
Skipped == row[pr_i].val.none \/ k_stripped = <<>> \/ v_stripped = <<>>

\* mutant: the suffix is compared as written, case-sensitively
IsChoice_cased(h) == EndsWith(h, S_choice)

\* line 240
IsChoice(h) == EndsWith(lower(h), S_choice)

\* line 243
IsMulti(h) == EndsWith(lower(h), S_multi)

\* lines 241, 244: k[: -len(suffix)].strip()
LabelOf(h, suffix) == strip(SubSeq(h, 1, Len(h) - Len(suffix)))

\* line 245: the items of v between ';', stripped, the empty ones dropped
Items(x) ==
    LET parts == Split(x, ";")
        kept == SelectSeq(parts, LAMBDA q : strip(q) # <<>>)
    IN  [j \in 1..Len(kept) |-> strip(kept[j])]

\* lines 234-239: continue
ColumnSkipped ==
    /\ InRow /\ Skipped
    /\ pr_i' = pr_i + 1
    /\ UNCHANGED <<row, pr_pc, text_fields, radio_fields, checkbox_fields>>
    /\ UNCHANGED NotPr

\* lines 240-242
ColumnChoice ==
    /\ InRow /\ ~Skipped /\ IsChoice(k_stripped)
    /\ radio_fields' = Put(radio_fields, LabelOf(k_stripped, S_choice), v_stripped)
    /\ pr_i' = pr_i + 1
    /\ UNCHANGED <<row, pr_pc, text_fields, checkbox_fields>>
    /\ UNCHANGED NotPr

\* lines 243-245
ColumnMulti ==
    /\ InRow /\ ~Skipped /\ ~IsChoice(k_stripped) /\ IsMulti(k_stripped)
    /\ checkbox_fields' = Put(checkbox_fields, LabelOf(k_stripped, S_multi), Items(v_stripped))
    /\ pr_i' = pr_i + 1
    /\ UNCHANGED <<row, pr_pc, text_fields, radio_fields>>
    /\ UNCHANGED NotPr

\* lines 246-247
ColumnText ==
    /\ InRow /\ ~Skipped /\ ~IsChoice(k_stripped) /\ ~IsMulti(k_stripped)
    /\ text_fields' = Put(text_fields, k_stripped, v_stripped)
    /\ pr_i' = pr_i + 1
    /\ UNCHANGED <<row, pr_pc, radio_fields, checkbox_fields>>
    /\ UNCHANGED NotPr

\* line 248
ReturnMaps ==
    /\ pr_pc = "loop" /\ pr_i > Len(row)
    /\ pr_pc' = "returned"
    /\ UNCHANGED <<row, pr_i, text_fields, radio_fields, checkbox_fields>>
    /\ UNCHANGED NotPr

PrNext ==
    \/ ColumnSkipped
    \/ ColumnChoice
    \/ ColumnMulti
    \/ ColumnText
    \/ ReturnMaps

SpecParseRow == PrInit /\ [][PrNext]_vars

----------------------------------------------------------------------------
(* Properties of parse_row_types *)

\* the header and the value of column j, surrounding blanks removed
Header(j) == strip(row[j].key)
Value(j) == strip(row[j].val.s)

\* the columns with a header and a value
NonEmpty == {j \in 1..Len(row) : ~row[j].val.none /\ Header(j) # <<>> /\ Value(j) # <<>>}

\* h without its last n characters and the blanks around the rest
Without(h, n) == strip(SubSeq(h, 1, Len(h) - n))

\* the field kind a header encodes, and the label left of the suffix
KindOf(j) ==
    IF Len(Header(j)) >= 8 /\ lower(SubSeq(Header(j), Len(Header(j)) - 7, Len(Header(j)))) = S_choice
    THEN "radio"
    ELSE IF Len(Header(j)) >= 7 /\ lower(SubSeq(Header(j), Len(Header(j)) - 6, Len(Header(j)))) = S_multi
    THEN "checkbox"
    ELSE "text"

LabelFor(j) ==
    CASE KindOf(j) = "radio" -> Without(Header(j), 8)
      [] KindOf(j) = "checkbox" -> Without(Header(j), 7)
      [] OTHER -> Header(j)

\* the last column of a kind and label is the one whose value the map keeps
Last(j) == \A m \in NonEmpty : (KindOf(m) = KindOf(j) /\ LabelFor(m) = LabelFor(j)) => m <= j

Of(kind) == {j \in NonEmpty : KindOf(j) = kind}

\* C10: every column with a header and a value is classified by its header:
\* ending in "(choice)" (any case) a radio field, ending in "(multi)" a
\* checkbox field whose value is split on ';' with empty items dropped, both
\* with the suffix and surrounding blanks removed from the label, any other
\* header a text field; each column is in exactly one of the three maps, and
\* a column with an empty value (or header) is in none.
C10_Classified ==
    pr_pc = "returned" =>
        /\ DOMAIN text_fields = {LabelFor(j) : j \in Of("text")}
        /\ DOMAIN radio_fields = {LabelFor(j) : j \in Of("radio")}
        /\ DOMAIN checkbox_fields = {LabelFor(j) : j \in Of("checkbox")}
        /\ \A j \in Of("text") : Last(j) => text_fields[LabelFor(j)] = Value(j)
        /\ \A j \in Of("radio") : Last(j) => radio_fields[LabelFor(j)] = Value(j)
        /\ \A j \in Of("checkbox") :
              Last(j) =>
                LET got == checkbox_fields[LabelFor(j)] IN
                /\ \A n \in 1..Len(got) : got[n] # <<>> /\ ~Contains(got[n], <<";">>)
                                          /\ got[n] = strip(got[n])
                /\ got = Items(Value(j))

C10_Witness ==
    /\ pr_pc = "returned"
    /\ Len(row) = 2 /\ row[1].key = <<"a", "(", "C", "H", "O", "I", "C", "E", ")", " ">> /\ row[2].key = <<"b", " ", "(", "m", "u", "l", "t", "i", ")">>
    /\ radio_fields = [x \in {<<"a">>} |-> <<"v">>]
    /\ checkbox_fields = [x \in {<<"b">>} |-> <<<<"x">>, <<"y">>>>]
    /\ text_fields = <<>>

----------------------------------------------------------------------------
(* prac/main.py: main, fill_and_submit_once, submit_form *)

MaxRows == 2

\* line 213: range(5)
SubmitTries == 5

\* dict assignment d[key] = val on a dict kept as its items in insertion order
PutItem(items, key, val) ==
    IF \E j \in 1..Len(items) : items[j][1] = key
    THEN [j \in 1..Len(items) |-> IF items[j][1] = key THEN <<key, val>> ELSE items[j]]
    ELSE Append(items, <<key, val>>)

RECURSIVE ParseRowTypes(_, _, _)
\* lines 229-248 as a function of the row: the three dicts, as items in
\* insertion order, after the columns from j on
ParseRowTypes(r, j, acc) ==
    IF j > Len(r) THEN acc
    ELSE LET key == strip(r[j].key)
             val == strip(r[j].val.s)
         IN  IF r[j].val.none \/ key = <<>> \/ val = <<>>
             THEN ParseRowTypes(r, j + 1, acc)
             ELSE IF IsChoice(key)
             THEN ParseRowTypes(r, j + 1,
                      [acc EXCEPT !.radio = PutItem(@, LabelOf(key, S_choice), val)])
             ELSE IF IsMulti(key)
             THEN ParseRowTypes(r, j + 1,
                      [acc EXCEPT !.check = PutItem(@, LabelOf(key, S_multi), Items(val))])
             ELSE ParseRowTypes(r, j + 1, [acc EXCEPT !.text = PutItem(@, key, val)])

\* lines 259-272: the calls fill_and_submit_once makes for a row, in order
FieldCalls(r) ==
    LET maps == ParseRowTypes(r, 1, [text |-> <<>>, radio |-> <<>>, check |-> <<>>])
        calls(kind, items) == [j \in 1..Len(items) |->
                                 [kind |-> kind, label |-> items[j][1], value |-> items[j][2]]]
    IN  calls("text", maps.text) \o calls("radio", maps.radio) \o calls("check", maps.check)

\* lines 105-144: the element fill_text_field types into, None when it returns False
FindTextField(d, label) ==
    LET variants == CandidateLabelVariants(label)
    IN  IF FirstScoped(d, variants) # None THEN FirstScoped(d, variants)
        ELSE FirstLocated(d, Locators(variants))

\* lines 147-164: the element select_radio clicks, None when it returns False
FindRadio(d, label, opt) ==
    LET exact == XPath("radio", "=", opt)
        partly == XPath("radio", "contains", opt)
    IN  IF FindInQuestionContainer(d, label, exact) # None
        THEN FindInQuestionContainer(d, label, exact)
        ELSE IF FindElement(d, exact) # None THEN FindElement(d, exact)
        ELSE FindElement(d, partly)

\* the return value of the field function called for c
FieldOk(d, c) ==
    CASE c.kind = "text" -> FindTextField(d, c.label) # None
      [] c.kind = "radio" -> FindRadio(d, c.label, c.value) # None
      [] OTHER -> SelectCheckboxes(d, c.label, c.value, 1).success

\* whether the field function called for c touches an element (send_keys, click)
FieldTouches(d, c) ==
    CASE c.kind = "text" -> FindTextField(d, c.label) # None
      [] c.kind = "radio" -> FindRadio(d, c.label, c.value) # None
      [] OTHER -> SelectCheckboxes(d, c.label, c.value, 1).clicks # <<>>

\* an entry of the run's trace
Event(i, ev, label, outcome) == <<i, ev, label, outcome>>

S_Q_choice == <<"Q", " ", "(", "c", "h", "o", "i", "c", "e", ")">>
S_Q_multi == <<"Q", " ", "(", "M", "u", "l", "t", "i", ")">>
S_A_B == <<"A", ";", " ", "B">>

CsRowPool ==
    { <<Column(S_N, Cell(<<"v">>)), Column(S_Q_choice, Cell(S_A)), Column(S_Q_multi, Cell(S_A_B))>>,
      <<Column(S_Q_multi, Cell(S_A)), Column(S_N, Cell(<<"w">>))>>,
      <<Column(S_N, NoCell), Column(S_Q_choice, Cell(S_B))>> }

CsForms ==
    { <<Block({S_N}, <<Control("input", S_N, FALSE)>>),
        Block({S_Q}, <<Control("radio", S_A, FALSE), Control("radio", S_B, FALSE),
                       Control("checkbox", S_A, FALSE), Control("checkbox", S_B, TRUE)>>)>>,
      <<Block({S_Q}, <<Control("radio", S_A, FALSE), Control("checkbox", S_A, TRUE)>>)>>,
      <<Block({S_N}, <<Control("textarea", <<"N", "*">>, FALSE)>>)>> }

Limits == {-1, 0, 1, 2}

CsInit ==
    /\ PfIdle /\ GmIdle /\ SlIdle /\ PrIdle /\ AtIdle /\ SmIdle /\ LgIdle /\ TpIdle
    /\ csv \in SeqsUpTo(CsRowPool, MaxRows)
    /\ limit \in Limits
    /\ form \in CsForms
    /\ rows = <<>>
    /\ cs_pc = "main"
    /\ cs_i = 0 /\ cs_todo = <<>> /\ cs_log = <<>>
    /\ sf_iter = 0 /\ sf_next = 0 /\ sf_submit = 0 /\ sf_final = 0 /\ sf_end = "off"

SfVars == <<sf_iter, sf_next, sf_submit, sf_final, sf_end>>

\* lines 442-447
ReadRows ==
    /\ cs_pc = "main"
    /\ LET all == csv
           cut == IF limit > 0
                  THEN SubSeq(all, 1, IF limit < Len(all) THEN limit ELSE Len(all))
                  ELSE all
       IN  /\ rows' = cut
           /\ cs_pc' = IF cut = <<>> THEN "done" ELSE "row"
           /\ cs_i' = IF cut = <<>> THEN 0 ELSE 1
    /\ UNCHANGED <<csv, limit, form, cs_todo, cs_log, SfVars>>
    /\ UNCHANGED NotCs

\* lines 450-456: the form is loaded and the row parsed
RowReady ==
    /\ cs_pc = "row"
    /\ cs_log' = Append(cs_log, Event(cs_i, "get", <<>>, ""))
    /\ cs_todo' = FieldCalls(rows[cs_i])
    /\ cs_pc' = "fields"
    /\ UNCHANGED <<csv, limit, form, rows, cs_i, SfVars>>
    /\ UNCHANGED NotCs

\* lines 253, 456-459: wait_for_form_ready times out and the run ends
RowNotReady ==
    /\ cs_pc = "row"
    /\ cs_log' = cs_log \o <<Event(cs_i, "get", <<>>, ""), Event(cs_i, "raise", <<>>, "TimeoutException")>>
    /\ cs_pc' = "aborted"
    /\ UNCHANGED <<csv, limit, form, rows, cs_i, cs_todo, SfVars>>
    /\ UNCHANGED NotCs

InFields == cs_pc = "fields" /\ cs_todo # <<>>

\* lines 259-272: the field function returned True
FieldFound ==
    /\ InFields /\ FieldOk(form, cs_todo[1])
    /\ cs_log' = Append(cs_log, Event(cs_i, cs_todo[1].kind, cs_todo[1].label, "OK"))
    /\ cs_todo' = Tail(cs_todo)
    /\ UNCHANGED <<csv, limit, form, rows, cs_pc, cs_i, SfVars>>
    /\ UNCHANGED NotCs

\* mutant: a field that is not found ends the run
FieldNotFound_fatal ==
    /\ InFields /\ ~FieldOk(form, cs_todo[1])
    /\ cs_log' = Append(cs_log, Event(cs_i, cs_todo[1].kind, cs_todo[1].label, "NOT FOUND"))
    /\ cs_pc' = "aborted"
    /\ UNCHANGED <<csv, limit, form, rows, cs_i, cs_todo, SfVars>>
    /\ UNCHANGED NotCs

\* lines 259-272: the field function returned False, which is printed
FieldNotFound ==
    /\ InFields /\ ~FieldOk(form, cs_todo[1])
    /\ cs_log' = Append(cs_log, Event(cs_i, cs_todo[1].kind, cs_todo[1].label, "NOT FOUND"))
    /\ cs_todo' = Tail(cs_todo)
    /\ UNCHANGED <<csv, limit, form, rows, cs_pc, cs_i, SfVars>>
    /\ UNCHANGED NotCs

\* lines 129, 140, 162, 188: send_keys or click on the element found raises
\* (not interactable, stale, intercepted), which nothing catches
FieldRaises ==
    /\ InFields /\ FieldTouches(form, cs_todo[1])
    /\ cs_log' = Append(cs_log, Event(cs_i, "raise", cs_todo[1].label, "WebDriverException"))
    /\ cs_pc' = "aborted"
    /\ UNCHANGED <<csv, limit, form, rows, cs_i, cs_todo, SfVars>>
    /\ UNCHANGED NotCs

\* line 275: submit_form is called
CallSubmitForm ==
    /\ cs_pc = "fields" /\ cs_todo = <<>>
    /\ cs_log' = Append(cs_log, Event(cs_i, "submit_form", <<>>, ""))
    /\ cs_pc' = "submit"
    /\ sf_iter' = 0 /\ sf_next' = 0 /\ sf_submit' = 0 /\ sf_final' = 0 /\ sf_end' = "loop"
    /\ UNCHANGED <<csv, limit, form, rows, cs_i, cs_todo>>
    /\ UNCHANGED NotCs

\* mutant: the loop goes on after Submit was clicked
SubmitClicked_continuing ==
    /\ cs_pc = "submit" /\ sf_iter < SubmitTries
    /\ sf_submit' = sf_submit + 1
    /\ cs_pc' = "next"
    /\ UNCHANGED <<csv, limit, form, rows, cs_i, cs_todo, cs_log, sf_iter, sf_next, sf_final, sf_end>>
    /\ UNCHANGED NotCs

\* lines 214-215: a Submit or Send button became clickable and was clicked
SubmitClicked ==
    /\ cs_pc = "submit" /\ sf_iter < SubmitTries
    /\ sf_submit' = sf_submit + 1
    /\ sf_end' = "clicked"
    /\ cs_pc' = "returned"
    /\ UNCHANGED <<csv, limit, form, rows, cs_i, cs_todo, cs_log, sf_iter, sf_next, sf_final>>
    /\ UNCHANGED NotCs

\* line 214: both waits timed out
SubmitAbsent ==
    /\ cs_pc = "submit" /\ sf_iter < SubmitTries
    /\ cs_pc' = "next"
    /\ UNCHANGED <<csv, limit, form, rows, cs_i, cs_todo, cs_log, SfVars>>
    /\ UNCHANGED NotCs

\* lines 217-219: a Next or Continue button was clicked
NextClicked ==
    /\ cs_pc = "next"
    /\ sf_next' = sf_next + 1
    /\ sf_iter' = sf_iter + 1
    /\ cs_pc' = "submit"
    /\ UNCHANGED <<csv, limit, form, rows, cs_i, cs_todo, cs_log, sf_submit, sf_final, sf_end>>
    /\ UNCHANGED NotCs

\* lines 217-218: break
NextAbsent ==
    /\ cs_pc = "next"
    /\ sf_end' = "no_next"
    /\ cs_pc' = "final"
    /\ UNCHANGED <<csv, limit, form, rows, cs_i, cs_todo, cs_log, sf_iter, sf_next, sf_submit, sf_final>>
    /\ UNCHANGED NotCs

\* line 213: the range is used up
LoopExhausted ==
    /\ cs_pc = "submit" /\ sf_iter >= SubmitTries
    /\ sf_end' = "exhausted"
    /\ cs_pc' = "final"
    /\ UNCHANGED <<csv, limit, form, rows, cs_i, cs_todo, cs_log, sf_iter, sf_next, sf_submit, sf_final>>
    /\ UNCHANGED NotCs

\* line 221: the last attempt, clicking or not
FinalAttempt ==
    /\ cs_pc = "final"
    /\ sf_final' = sf_final + 1
    /\ \E clicked \in BOOLEAN : sf_submit' = sf_submit + (IF clicked THEN 1 ELSE 0)
    /\ cs_pc' = "returned"
    /\ UNCHANGED <<csv, limit, form, rows, cs_i, cs_todo, cs_log, sf_iter, sf_next, sf_end>>
    /\ UNCHANGED NotCs

\* line 204: el.click() raises something other than TimeoutException
ClickRaises ==
    /\ \/ cs_pc = "submit" /\ sf_iter < SubmitTries
       \/ cs_pc = "next"
       \/ cs_pc = "final"
    /\ sf_final' = sf_final + (IF cs_pc = "final" THEN 1 ELSE 0)
    /\ cs_log' = Append(cs_log, Event(cs_i, "raise", <<>>, "WebDriverException"))
    /\ cs_pc' = "aborted"
    /\ UNCHANGED <<csv, limit, form, rows, cs_i, cs_todo, sf_iter, sf_next, sf_submit, sf_end>>
    /\ UNCHANGED NotCs

\* lines 278, 449-455: submit_form has returned and its locals are gone; the
\* next row, if any, follows
RowDone ==
    /\ cs_pc = "returned"
    /\ cs_log' = Append(cs_log, Event(cs_i, "submitted", <<>>, ""))
    /\ IF cs_i < Len(rows)
       THEN cs_i' = cs_i + 1 /\ cs_pc' = "row"
       ELSE cs_i' = cs_i /\ cs_pc' = "done"
    /\ sf_iter' = 0 /\ sf_next' = 0 /\ sf_submit' = 0 /\ sf_final' = 0 /\ sf_end' = "off"
    /\ UNCHANGED <<csv, limit, form, rows, cs_todo>>
    /\ UNCHANGED NotCs

CsNext ==
    \/ ReadRows
    \/ RowReady
    \/ RowNotReady
    \/ FieldFound
    \/ FieldNotFound
    \/ FieldRaises
    \/ CallSubmitForm
    \/ SubmitClicked
    \/ SubmitAbsent
    \/ NextClicked
    \/ NextAbsent
    \/ LoopExhausted
    \/ FinalAttempt
    \/ ClickRaises
    \/ RowDone

SpecCsv == CsInit /\ [][CsNext]_vars

----------------------------------------------------------------------------
(* Properties of the CSV run *)

\* the rows main is to submit
Take(all, l) ==
    IF l > 0 THEN [j \in 1..(IF l < Len(all) THEN l ELSE Len(all)) |-> all[j]] ELSE all

\* what the run does for row i when nothing raises, outcomes left out
RowEvents(r, i) ==
    LET calls == FieldCalls(r)
    IN  <<<<i, "get", <<>>>>>>
        \o [j \in 1..Len(calls) |-> <<i, calls[j].kind, calls[j].label>>]
        \o <<<<i, "submit_form", <<>>>>, <<i, "submitted", <<>>>>>>

RECURSIVE RunEvents(_, _)
RunEvents(rws, i) ==
    IF i > Len(rws) THEN <<>> ELSE RowEvents(rws[i], i) \o RunEvents(rws, i + 1)

\* the trace without its exceptions and without the outcomes
Done ==
    LET kept == SelectSeq(cs_log, LAMBDA e : e[2] # "raise")
    IN  [j \in 1..Len(kept) |-> <<kept[j][1], kept[j][2], kept[j][3]>>]

NotFoundAt(p) == p \in 1..Len(cs_log) /\ cs_log[p][4] = "NOT FOUND"

\* C11: the CSV filler submits the rows in CSV order, one at a time, only the
\* first --limit rows when limit > 0; a field that is not found is only
\* logged: every field of every row is attempted, submit_form is called for
\* every row, and the run ends early only by an exception, never by a field
\* that was not found.
C11_RowsInOrder ==
    cs_pc \notin {"off", "main"} =>
        /\ IsPrefix(Done, RunEvents(Take(csv, limit), 1))
        /\ cs_pc = "done" => Done = RunEvents(Take(csv, limit), 1)
        /\ cs_pc = "aborted" => cs_log[Len(cs_log)][2] = "raise"
        /\ cs_pc \notin {"done", "aborted"} => Len(Done) < Len(RunEvents(Take(csv, limit), 1))

\* a two-row run in which the first field of row 1 was not found, its later
\* fields were attempted and both rows were submitted
C11_Witness ==
    /\ cs_pc = "done" /\ Len(rows) = 2
    /\ \E p, q \in 1..Len(cs_log) :
          /\ p < q /\ NotFoundAt(p) /\ cs_log[p][1] = 1
          /\ cs_log[q][1] = 1 /\ cs_log[q][2] \in {"radio", "check"} /\ cs_log[q][4] = "OK"
    /\ \E p \in 1..Len(cs_log) : cs_log[p][1] = 2 /\ cs_log[p][2] = "submitted"

\* C12: submit_form clicks Next/Continue at most 5 times and Submit/Send at
\* most once per call, and when its loop ends without a Submit click (no
\* Next/Continue found, or 5 iterations used up) it makes exactly one more
\* Submit/Send attempt before returning; after a Submit click in the loop it
\* makes none.
C12_BoundedSubmit ==
    /\ sf_next <= SubmitTries /\ sf_iter <= SubmitTries /\ sf_next = sf_iter
    /\ sf_submit <= 1
    /\ sf_final <= 1
    /\ cs_pc = "returned" =>
          /\ sf_end \in {"clicked", "no_next", "exhausted"}
          /\ sf_end \in {"no_next", "exhausted"} => sf_final = 1
          /\ sf_end = "clicked" => sf_final = 0 /\ sf_submit = 1
    /\ cs_pc = "final" => sf_submit = 0 /\ sf_final = 0

\* submit_form returned after five clicks on Next and a last attempt that
\* clicked Submit
C12_Witness ==
    /\ cs_pc = "returned" /\ sf_end = "exhausted"
    /\ sf_next = SubmitTries /\ sf_final = 1 /\ sf_submit = 1

----------------------------------------------------------------------------
(* sallie_form/form_filler/__main__.py with normalforms/form_filler/filler.py *)
(* and airtable.py: the Airtable CLI                                          *)

MaxEntries == 2

\* an element of the page; nested: a control that lies inside the label
\* element right before it
El(tag, type, text, nested) == [tag |-> tag, type |-> type, text |-> text, nested |-> nested]

Lowest(S) == IF S = {} THEN 0 ELSE CHOOSE q \in S : \A o \in S : q <= o

\* //label[normalize-space()='<label>']: the first such label, 0 if none
LabelExact(els, label) ==
    Lowest({q \in 1..Len(els) : els[q].tag = "label" /\ strip(els[q].text) = label})

\* //label[contains(text(), '<label>')]
LabelContaining(els, label) ==
    Lowest({q \in 1..Len(els) : els[q].tag = "label" /\ Contains(els[q].text, label)})

\* <label p>/following::<tag>[1]: descendants of the label are not on the
\* following axis
Following(els, lp, tag) ==
    IF lp = 0 THEN 0
    ELSE Lowest({q \in (lp + 1)..Len(els) :
                   els[q].tag = tag /\ ~(q = lp + 1 /\ els[q].nested)})

\* <label p>//<tag>
Inside(els, lp, tag) ==
    IF lp # 0 /\ lp < Len(els) /\ els[lp + 1].nested /\ els[lp + 1].tag = tag
    THEN lp + 1 ELSE 0

\* field.fill(value) works on a textarea and on a text input, and raises
\* on any other input
Fillable(e) == e.tag = "textarea" \/ (e.tag = "input" /\ e.type = "text")

\* filler.py lines 48-55: what each XPath of the list selects first
TextSelectors(els, label) ==
    << Following(els, LabelExact(els, label), "input"),
       Following(els, LabelExact(els, label), "textarea"),
       Inside(els, LabelExact(els, label), "input"),
       Inside(els, LabelExact(els, label), "textarea"),
       Following(els, LabelContaining(els, label), "input"),
       Following(els, LabelContaining(els, label), "textarea") >>

\* filler.py lines 44-79: the element filled, 0 when PlaywrightTimeoutError is
\* raised; the fallback of line 72 asks for an input that contains a label,
\* which no page has
FillTextField(els, label) ==
    LET sel == TextSelectors(els, label)
        good == {j \in 1..Len(sel) : sel[j] # 0 /\ Fillable(els[sel[j]])}
    IN  IF good = {} THEN 0 ELSE sel[Lowest(good)]

\* page.get_by_label(label): the controls of the labels whose text holds label
ByLabel(els, label) ==
    {q \in 2..Len(els) : els[q].nested /\ els[q - 1].tag = "label"
                            /\ Contains(lower(els[q - 1].text), lower(label))}

\* a call's effect: the page interactions it made and whether it raised
Effect(ops, raised) == [ops |-> ops, raised |-> raised]

\* airtable.py lines 128-175: check_by_label and uncheck_by_label
CheckByLabel(els, label, op) ==
    LET hits == ByLabel(els, label)
        q == Inside(els, LabelExact(els, label), "input")
    IN  IF hits # {}
        THEN Effect(<<<<"get_by_label", label>>, <<op, Lowest(hits)>>>>,
                    Cardinality(hits) > 1 \/ els[Lowest(hits)].type # "checkbox")
        ELSE IF q # 0 /\ els[q].type = "checkbox"
        THEN Effect(<<<<"get_by_label", label>>, <<"locator", label>>, <<op, q>>>>, FALSE)
        ELSE Effect(<<<<"get_by_label", label>>, <<"locator", label>>>>, TRUE)

\* airtable.py lines 7-41: open_field clicks what it finds and raises for
\* nothing that is absent
OpenField(els, label) ==
    LET hits == ByLabel(els, label)
        lp == LabelExact(els, label)
        focus == Lowest({Following(els, lp, t) : t \in {"input", "textarea", "select", "button"}} \ {0})
    IN  IF hits # {} THEN <<<<"get_by_label", label>>, <<"click", Lowest(hits)>>>>
        ELSE IF lp = 0 THEN <<<<"get_by_label", label>>, <<"locator", label>>>>
        ELSE <<<<"get_by_label", label>>, <<"locator", label>>,
               <<"click", IF focus # 0 THEN focus ELSE lp>>>>

\* airtable.py lines 44-62
FillSelectSingle(els, label, choice) ==
    Effect(OpenField(els, label) \o <<<<"keyboard", choice>>>>, FALSE)

\* airtable.py lines 65-89, for the one-choice list [str(value)] of filler.py
\* line 35
FillSelectMulti(els, label, choice) ==
    Effect(OpenField(els, label) \o <<<<"keyboard", choice>>, <<"keyboard", "Escape">>>>, FALSE)

\* mutant: the file input is looked up before the path is checked
SetAttachment_lookup_first(pg, label, path) ==
    LET q == Inside(pg.els, LabelExact(pg.els, label), "input")
        found == q # 0 /\ pg.els[q].type = "file"
        lookup == <<<<"get_by_label", label>>, <<"locator", label>>>>
    IN  IF path \notin pg.files \/ ~found THEN Effect(lookup, TRUE)
        ELSE Effect(lookup \o <<<<"set_input_files", q>>>>, FALSE)

\* airtable.py lines 92-125: the path is checked before the page is touched
SetAttachment(pg, label, path) ==
    LET q == Inside(pg.els, LabelExact(pg.els, label), "input")
    IN  IF path \notin pg.files THEN Effect(<<>>, TRUE)
        ELSE IF q # 0 /\ pg.els[q].type = "file"
        THEN Effect(<<<<"get_by_label", label>>, <<"locator", label>>, <<"set_input_files", q>>>>, FALSE)
        ELSE Effect(<<<<"get_by_label", label>>, <<"locator", label>>>>, TRUE)

TextKinds == {"text", "long_text", "email", "url", "tel", "number", "date"}

\* filler.py lines 16-41; every exception leaves fill_value as an Exception
FillValue(pg, kind, label, value) ==
    CASE kind \in TextKinds ->
           Effect(<<<<"locator", label>>>>
                    \o (IF FillTextField(pg.els, label) # 0
                        THEN <<<<"fill", FillTextField(pg.els, label)>>>> ELSE <<>>),
                  FillTextField(pg.els, label) = 0)
      [] kind = "checkbox" ->
           CheckByLabel(pg.els, label, IF value # "" THEN "check" ELSE "uncheck")
      [] kind = "single_select" -> FillSelectSingle(pg.els, label, value)
      [] kind = "multi_select" -> FillSelectMulti(pg.els, label, value)
      [] kind = "attachment" -> SetAttachment(pg, label, value)
      [] OTHER -> Effect(<<>>, TRUE)

\* filler.py lines 105-150: the button submit clicks, 0 when it raises
\* PlaywrightTimeoutError
SubmitButton(els, cfgd) ==
    LET buttons == {q \in 1..Len(els) : els[q].tag = "button"}
        named == {q \in buttons : Contains(lower(els[q].text), <<"s", "u", "b", "m", "i", "t">>)}
        typed == {q \in 1..Len(els) : els[q].tag \in {"button", "input"} /\ els[q].type = "submit"}
        texts == {q \in buttons : Contains(els[q].text, <<"S", "u", "b", "m", "i", "t">>)
                                     \/ Contains(els[q].text, <<"S", "e", "n", "d">>)}
        custom == {q \in 1..Len(els) : cfgd.submit_selector /\ els[q].type = "custom"}
    IN  IF named # {} THEN Lowest(named)
        ELSE IF typed # {} THEN Lowest(typed)
        ELSE IF texts # {} THEN Lowest(texts)
        ELSE Lowest(custom)

\* a JSON file: absent, not JSON, or its content
File(state, content) == [state |-> state, content |-> content]

\* config.json: which of the keys the code reads are set
ConfigOf(url, success_selector, success_url_contains, submit_selector) ==
    [url |-> url, success_selector |-> success_selector,
     success_url_contains |-> success_url_contains, submit_selector |-> submit_selector]

\* an entry of data.json; keys: whether it is a dict with label, type and value
FieldData(keys, label, type, value) ==
    [keys |-> keys, label |-> label, type |-> type, value |-> value]

\* data.json: a list of entries, or something else (list: FALSE)
DataOf(list, entries) == [list |-> list, entries |-> entries]

S_M == <<"M">>
S_F == <<"F">>
S_C == <<"C">>
S_Submit == <<"S", "u", "b", "m", "i", "t">>

AtPages ==
    { [els |-> << El("label", "", S_N, FALSE), El("input", "text", <<>>, FALSE),
                  El("label", "", S_C, FALSE), El("input", "checkbox", <<>>, TRUE),
                  El("label", "", S_F, FALSE), El("input", "file", <<>>, TRUE),
                  El("button", "submit", S_Submit, FALSE) >>,
       files |-> {"cv.pdf"}],
      [els |-> << El("label", "", S_N, FALSE), El("textarea", "", <<>>, TRUE),
                  El("div", "custom", <<>>, FALSE) >>,
       files |-> {}] }

AtConfigs ==
    { File("missing", ConfigOf(FALSE, FALSE, FALSE, FALSE)),
      File("invalid", ConfigOf(FALSE, FALSE, FALSE, FALSE)),
      File("ok", ConfigOf(FALSE, FALSE, FALSE, FALSE)) }
    \cup { File("ok", ConfigOf(TRUE, a, b, c)) : a, b, c \in BOOLEAN }

AtEntries ==
    { FieldData(TRUE, S_N, "text", "v"),
      FieldData(TRUE, S_M, "email", "v"),
      FieldData(TRUE, S_N, "color", "v"),
      FieldData(TRUE, S_F, "attachment", "cv.pdf"),
      FieldData(TRUE, S_F, "attachment", "gone.pdf"),
      FieldData(TRUE, S_C, "checkbox", "1"),
      FieldData(TRUE, S_M, "single_select", "x"),
      FieldData(FALSE, <<>>, "", "") }

AtDatas ==
    { File("missing", DataOf(FALSE, <<>>)),
      File("invalid", DataOf(FALSE, <<>>)),
      File("ok", DataOf(FALSE, <<>>)) }
    \cup { File("ok", DataOf(TRUE, es)) : es \in SeqsUpTo(AtEntries, MaxEntries) }

AtInit ==
    /\ PfIdle /\ GmIdle /\ SlIdle /\ PrIdle /\ CsIdle /\ SmIdle /\ LgIdle /\ TpIdle
    /\ at_config \in AtConfigs
    /\ at_data \in AtDatas
    /\ at_url \in BOOLEAN
    /\ at_page \in AtPages
    /\ at_pc = "load"
    /\ at_i = 0 /\ at_status = "" /\ at_sysexit = FALSE
    /\ at_ops = <<>> /\ at_ws = <<>> /\ run_log = <<>> /\ exit_code = -1

AtInputs == <<at_config, at_data, at_url, at_page>>

\* __main__.py lines 17-27, 68-75: sys.exit(1) before the try statement
ExitEarly ==
    /\ at_pc = "load"
    /\ \/ at_config.state # "ok"
       \/ at_data.state # "ok"
       \/ ~at_url /\ ~at_config.content.url
    /\ exit_code' = 1
    /\ at_pc' = "exited"
    /\ UNCHANGED <<AtInputs, at_i, at_status, at_sysexit, at_ops, at_ws, run_log>>
    /\ UNCHANGED NotAt

\* lines 134, 148-152, 160-164: page.screenshot, of the submitted form and
\* in the except clauses
Shot == <<0, "screenshot", <<>>>>
ErrorShot == <<0, "error_screenshot", <<>>>>

\* lines 78-107: status is set; launch and navigation, which may time out or
\* fail otherwise; a spinner that stays only prints a warning
Navigate ==
    /\ at_pc = "load"
    /\ at_config.state = "ok" /\ at_data.state = "ok"
    /\ at_url \/ at_config.content.url
    /\ \E outcome \in {"ok", "timeout", "error"} :
          /\ at_status' = IF outcome = "ok" THEN "success" ELSE outcome
          /\ at_pc' = IF outcome = "ok" THEN "fields" ELSE "finally"
          /\ at_ops' = (IF outcome = "error" THEN at_ops ELSE Append(at_ops, <<0, "goto", <<>>>>))
                           \o (IF outcome = "ok" THEN <<>> ELSE <<ErrorShot>>)
          /\ at_i' = IF outcome = "ok" THEN 1 ELSE 0
    /\ UNCHANGED <<AtInputs, at_sysexit, at_ws, run_log, exit_code>>
    /\ UNCHANGED NotAt

InData == at_pc = "fields" /\ at_data.content.list /\ at_i <= Len(at_data.content.entries)

field_data == at_data.content.entries[at_i]

\* lines 110-117: sys.exit(1) inside the try statement; SystemExit is not an
\* Exception, so no except clause runs and status stays as it is
ExitInTry ==
    /\ at_pc = "fields"
    /\ \/ ~at_data.content.list
       \/ InData /\ ~field_data.keys
    /\ at_sysexit' = TRUE
    /\ at_pc' = "finally"
    /\ UNCHANGED <<AtInputs, at_i, at_status, at_ops, at_ws, run_log, exit_code>>
    /\ UNCHANGED NotAt

FillOf(e) == FillValue(at_page, e.type, e.label, e.value)

Tagged(i, ops) == [j \in 1..Len(ops) |-> <<i, ops[j][1], ops[j][2]>>]

\* line 124: fill_value returned
FillDone ==
    /\ InData /\ field_data.keys /\ ~FillOf(field_data).raised
    /\ at_ops' = at_ops \o Tagged(at_i, FillOf(field_data).ops)
    /\ at_i' = at_i + 1
    /\ UNCHANGED <<AtInputs, at_pc, at_status, at_sysexit, at_ws, run_log, exit_code>>
    /\ UNCHANGED NotAt

\* mutant: the exception of a field is recorded and the loop goes on
FillRaised_continuing ==
    /\ InData /\ field_data.keys /\ FillOf(field_data).raised
    /\ at_ops' = at_ops \o Tagged(at_i, FillOf(field_data).ops) \o <<ErrorShot>>
    /\ at_status' = "error"
    /\ at_i' = at_i + 1
    /\ UNCHANGED <<AtInputs, at_pc, at_sysexit, at_ws, run_log, exit_code>>
    /\ UNCHANGED NotAt

\* lines 124, 154-164: fill_value raised its Exception, which line 154 catches
FillRaised ==
    /\ InData /\ field_data.keys /\ FillOf(field_data).raised
    /\ at_ops' = at_ops \o Tagged(at_i, FillOf(field_data).ops) \o <<ErrorShot>>
    /\ at_status' = "error"
    /\ at_pc' = "finally"
    /\ UNCHANGED <<AtInputs, at_i, at_sysexit, at_ws, run_log, exit_code>>
    /\ UNCHANGED NotAt

FieldsFilled == at_pc = "fields" /\ at_data.content.list /\ at_i > Len(at_data.content.entries)

\* lines 129-135: the submit button is clicked and the screenshot taken,
\* which may fail with an error that line 154 catches
Submit ==
    /\ FieldsFilled /\ SubmitButton(at_page.els, at_config.content) # 0
    /\ \E shot \in BOOLEAN :
          /\ at_ops' = at_ops
                \o <<<<0, "click_submit", SubmitButton(at_page.els, at_config.content)>>, Shot>>
                \o (IF shot THEN <<>> ELSE <<ErrorShot>>)
          /\ at_status' = IF shot THEN at_status ELSE "error"
          /\ at_pc' = IF shot THEN "success_selector" ELSE "finally"
    /\ UNCHANGED <<AtInputs, at_i, at_sysexit, at_ws, run_log, exit_code>>
    /\ UNCHANGED NotAt

\* lines 129, 142-152: submit finds no button and raises PlaywrightTimeoutError
SubmitNotFound ==
    /\ FieldsFilled /\ SubmitButton(at_page.els, at_config.content) = 0
    /\ at_status' = "timeout"
    /\ at_ops' = Append(at_ops, ErrorShot)
    /\ at_pc' = "finally"
    /\ UNCHANGED <<AtInputs, at_i, at_sysexit, at_ws, run_log, exit_code>>
    /\ UNCHANGED NotAt

Consulted(detector, signal) == <<detector, signal>>

\* filler.py lines 165-170: the configured selector, when there is one
SuccessSelector ==
    /\ at_pc = "success_selector"
    /\ IF at_config.content.success_selector
       THEN \E signal \in BOOLEAN :
               /\ at_ws' = Append(at_ws, Consulted("selector", signal))
               /\ at_pc' = IF signal THEN "finally" ELSE "success_url"
       ELSE at_ws' = at_ws /\ at_pc' = "success_url"
    /\ UNCHANGED <<AtInputs, at_i, at_status, at_sysexit, at_ops, run_log, exit_code>>
    /\ UNCHANGED NotAt

\* filler.py lines 173-178: the configured URL substring, when there is one;
\* a URL without it raises PlaywrightTimeoutError, caught at __main__.py line 142
SuccessUrl ==
    /\ at_pc = "success_url"
    /\ IF at_config.content.success_url_contains
       THEN \E signal \in BOOLEAN :
               /\ at_ws' = Append(at_ws, Consulted("url", signal))
               /\ at_pc' = "finally"
               /\ at_status' = IF signal THEN at_status ELSE "timeout"
               /\ at_ops' = IF signal THEN at_ops ELSE Append(at_ops, ErrorShot)
       ELSE /\ at_ws' = at_ws /\ at_pc' = "success_text"
            /\ UNCHANGED <<at_status, at_ops>>
    /\ UNCHANGED <<AtInputs, at_i, at_sysexit, run_log, exit_code>>
    /\ UNCHANGED NotAt

\* filler.py lines 181-199: the text patterns; one that is on the page and
\* shows in time signals
SuccessText ==
    /\ at_pc = "success_text"
    /\ \E signal \in BOOLEAN :
          /\ at_ws' = Append(at_ws, Consulted("text", signal))
          /\ at_pc' = IF signal THEN "finally" ELSE "form_gone"
    /\ UNCHANGED <<AtInputs, at_i, at_status, at_sysexit, at_ops, run_log, exit_code>>
    /\ UNCHANGED NotAt

\* filler.py lines 203-234: the form-gone heuristics; signal or not, and
\* whatever they raise, wait_for_success returns
FormGone ==
    /\ at_pc = "form_gone"
    /\ \E signal \in BOOLEAN : at_ws' = Append(at_ws, Consulted("gone", signal))
    /\ at_pc' = "finally"
    /\ UNCHANGED <<AtInputs, at_i, at_status, at_sysexit, at_ops, run_log, exit_code>>
    /\ UNCHANGED NotAt

\* __main__.py lines 166-181
Finally ==
    /\ at_pc = "finally"
    /\ run_log' = Append(run_log, at_status)
    /\ at_pc' = "exit"
    /\ UNCHANGED <<AtInputs, at_i, at_status, at_sysexit, at_ops, at_ws, exit_code>>
    /\ UNCHANGED NotAt

\* mutant: the exit code follows status alone
Exit_by_status ==
    /\ at_pc = "exit"
    /\ exit_code' = IF at_status = "success" THEN 0 ELSE 1
    /\ at_pc' = "exited"
    /\ UNCHANGED <<AtInputs, at_i, at_status, at_sysexit, at_ops, at_ws, run_log>>
    /\ UNCHANGED NotAt

\* __main__.py lines 183-189, or the SystemExit(1) in flight leaving main
Exit ==
    /\ at_pc = "exit"
    /\ exit_code' = IF at_sysexit THEN 1 ELSE IF at_status = "success" THEN 0 ELSE 1
    /\ at_pc' = "exited"
    /\ UNCHANGED <<AtInputs, at_i, at_status, at_sysexit, at_ops, at_ws, run_log>>
    /\ UNCHANGED NotAt

AtNext ==
    \/ ExitEarly
    \/ Navigate
    \/ ExitInTry
    \/ FillDone
    \/ FillRaised
    \/ Submit
    \/ SubmitNotFound
    \/ SuccessSelector
    \/ SuccessUrl
    \/ SuccessText
    \/ FormGone
    \/ Finally
    \/ Exit

SpecAirtable == AtInit /\ [][AtNext]_vars

----------------------------------------------------------------------------
(* Properties of the Airtable CLI *)

\* the try statement of main has been left
Ended == at_pc \in {"finally", "exit", "exited"}

Entries == at_data.content.entries

\* wait_for_success was entered and no detector it consulted signalled
NoSignal == at_ws # <<>> /\ \A j \in 1..Len(at_ws) : ~at_ws[j][2]

\* C13: wait_for_success never treats a missing success signal as a failure:
\* when none of its detectors signals it returns normally, and the run is
\* recorded neither as timeout nor as error.
C13_UnknownNotFailure ==
    /\ (Ended /\ NoSignal) => at_status = "success"
    /\ (at_pc = "exited" /\ NoSignal) => run_log = <<"success">>

\* the detectors wait_for_success has for the configuration, in priority order
Detectors ==
    (IF at_config.content.success_selector THEN <<"selector">> ELSE <<>>)
    \o (IF at_config.content.success_url_contains THEN <<"url">> ELSE <<>>)
    \o <<"text", "gone">>

\* C14: wait_for_success consults its detectors in the order selector, URL,
\* text patterns, form-gone heuristics; it returns at the first one that
\* signals, and each later detector is consulted whenever all earlier ones
\* failed to signal.
C14_PriorityOrder ==
    /\ at_ws # <<>> =>
          /\ Len(at_ws) <= Len(Detectors)
          /\ \A j \in 1..Len(at_ws) : at_ws[j][1] = Detectors[j]
          /\ \A j \in 1..(Len(at_ws) - 1) : ~at_ws[j][2]
    /\ (Ended /\ NoSignal) => Len(at_ws) = Len(Detectors)

\* C15: every run of the CLI, whatever its outcome, appends exactly one entry
\* to the run log, with status success, timeout or error.
C15_OneLogEntry ==
    at_pc = "exited" =>
        Len(run_log) = 1 /\ run_log[1] \in {"success", "timeout", "error"}

\* wait_for_success returned: its last detector signalled, or was the last
\* there is
Returned ==
    at_ws # <<>> /\ (at_ws[Len(at_ws)][2] \/ at_ws[Len(at_ws)][1] = "gone")

OpNames == {at_ops[j][2] : j \in 1..Len(at_ops)}

\* navigation, every field fill, submit and wait_for_success completed
Completed ==
    /\ "goto" \in OpNames
    /\ at_data.content.list /\ at_i = Len(Entries) + 1
    /\ \A j \in 1..Len(Entries) : Entries[j].keys /\ ~FillOf(Entries[j]).raised
    /\ "click_submit" \in OpNames
    /\ Returned

\* C16: the CLI exits with code 0 if and only if navigation, every field
\* fill, submit and wait_for_success all completed without an exception, and
\* with code 1 on every other path.
C16_ExitCode ==
    at_pc = "exited" =>
        /\ exit_code \in {0, 1}
        /\ exit_code = 0 <=> Completed

\* a complete run that exited with 0 after an unknown outcome
C16_Witness ==
    /\ at_pc = "exited" /\ exit_code = 0
    /\ Len(Entries) = 2 /\ NoSignal

\* the fill of entry j was attempted
Attempted(j) == j < at_i \/ (j = at_i /\ Ended /\ ~at_sysexit)

\* entry j is of a supported kind whose control fill_value cannot locate
NotLocated(j) ==
    /\ Entries[j].keys
    /\ Entries[j].type \in TextKinds \cup {"checkbox", "attachment"}
    /\ Entries[j].type = "attachment" => Entries[j].value \in at_page.files
    /\ FillOf(Entries[j]).raised

\* C17: a field whose control cannot be located is a per-field failure only:
\* the remaining fields of the data list are still filled and submit is still
\* attempted.
C17_NotFoundNotFatal ==
    (Ended /\ at_data.content.list) =>
        \A j \in 1..Len(Entries) :
            (Attempted(j) /\ NotLocated(j)) => at_i = Len(Entries) + 1

Supported == TextKinds \cup {"checkbox", "single_select", "multi_select", "attachment"}

OpsOf(j) == {o \in 1..Len(at_ops) : at_ops[o][1] = j}

\* C18: fill_value raises for an unsupported kind before any page
\* interaction, and the fields that follow it in the data list are still
\* filled.
C18_UnsupportedOnlyThatField ==
    (Ended /\ at_data.content.list) =>
        \A j \in 1..Len(Entries) :
            (Attempted(j) /\ Entries[j].keys /\ Entries[j].type \notin Supported) =>
                /\ OpsOf(j) = {}
                /\ \A later \in (j + 1)..Len(Entries) : Attempted(later)

MissingFile(j) ==
    /\ Entries[j].keys /\ Entries[j].type = "attachment"
    /\ Entries[j].value \notin at_page.files

\* C19: for an attachment whose path does not exist set_attachment raises
\* before any page interaction, and the run is aborted: no later field is
\* filled, submit is never called, and the run is logged as not successful.
C19_MissingFileAborts ==
    at_data.content.list =>
        \A j \in 1..Len(Entries) :
            (MissingFile(j) /\ j <= at_i) =>
                /\ at_i = j
                /\ OpsOf(j) = {}
                /\ "click_submit" \notin OpNames
                /\ Attempted(j) => at_status = "error"
                /\ (Attempted(j) /\ at_pc = "exited") => run_log = <<"error">> /\ exit_code = 1

\* a run that filled its first field and was aborted by the missing file of
\* the second
C19_Witness ==
    /\ at_pc = "exited" /\ at_data.content.list /\ Len(Entries) = 2
    /\ MissingFile(2) /\ at_i = 2 /\ ~at_sysexit
    /\ OpsOf(1) # {}

\* _fill_text_field found no control for the entry the run stopped at and
\* raised PlaywrightTimeoutError (filler.py line 79)
FillTimedOut ==
    /\ Ended /\ ~at_sysexit /\ at_data.content.list
    /\ at_i \in 1..Len(Entries)
    /\ Entries[at_i].keys /\ Entries[at_i].type \in TextKinds
    /\ FillTextField(at_page.els, Entries[at_i].label) = 0

\* C24: every Playwright timeout or control-not-located error, raised in
\* navigation, a field fill, submit or the success wait, is recorded with
\* status "timeout" and every other exception with "error"; both attempt an
\* error screenshot and end in exit code 1.
C24_TimeoutStatus ==
    /\ FillTimedOut => at_status = "timeout"
    /\ (Ended /\ FieldsFilled /\ "click_submit" \notin OpNames) => at_status = "timeout"
    /\ (Ended /\ at_status \in {"timeout", "error"}) => "error_screenshot" \in OpNames
    /\ (at_pc = "exited" /\ at_status \in {"timeout", "error"}) => exit_code = 1

\* the positions in at_ops of the operation named
OpsNamed(name) == {o \in 1..Len(at_ops) : at_ops[o][2] = name}

\* entry j lacks a key, or fill_value raises for it
Failing(j) == ~Entries[j].keys \/ FillOf(Entries[j]).raised

\* C27: the steps of a run are ordered: the fields are filled in data-list
\* order; submit is called only after every entry was validated and filled
\* without an exception, so after a failing or malformed entry no later
\* entry is filled and submit is not called; the screenshot comes after
\* submit and before wait_for_success; submit is called at most once.
C27_StepsOrdered ==
    /\ \A a, b \in 1..Len(at_ops) :
          (a < b /\ at_ops[a][1] > 0 /\ at_ops[b][1] > 0) => at_ops[a][1] <= at_ops[b][1]
    /\ at_data.content.list =>
          \A j \in 1..Len(Entries) :
              (Failing(j) /\ j <= at_i) =>
                  /\ at_i = j
                  /\ \A later \in (j + 1)..Len(Entries) : OpsOf(later) = {}
                  /\ OpsNamed("click_submit") = {}
    /\ Cardinality(OpsNamed("click_submit")) <= 1
    /\ \A o \in OpsNamed("click_submit") :
          /\ at_data.content.list /\ at_i = Len(Entries) + 1
          /\ \A j \in 1..Len(Entries) : ~Failing(j)
          /\ \A a \in 1..Len(at_ops) : at_ops[a][1] > 0 => a < o
          /\ OpsNamed("screenshot") = {o + 1}
    /\ OpsNamed("screenshot") # {} => OpsNamed("click_submit") # {}
    /\ at_ws # <<>> => OpsNamed("screenshot") # {}

\* a run of two entries, both filled, then submit, the screenshot and
\* wait_for_success
C27_Witness ==
    /\ at_pc = "exited" /\ at_data.content.list /\ Len(Entries) = 2
    /\ OpsOf(1) # {} /\ OpsOf(2) # {}
    /\ OpsNamed("click_submit") # {} /\ OpsNamed("screenshot") # {}
    /\ at_ws # <<>>

\* C28: the logged status and the exit code agree: a "success" entry is
\* written only by a run in which submit and wait_for_success completed,
\* only such a run exits with code 0, and no run that exits with code 1,
\* the exits on a data file that is no list or on an entry lacking keys
\* included, leaves a "success" entry.
C28_LogAgreesWithExit ==
    at_pc = "exited" =>
        /\ \A k \in 1..Len(run_log) :
              run_log[k] = "success" => exit_code = 0 /\ Completed
        /\ exit_code = 0 => run_log = <<"success">> /\ Completed

----------------------------------------------------------------------------
(* rpa/form_parser_gemini.py: summarize_form_fields.  The page is its       *)
(* entry.* controls in document order and its text, a sequence of           *)
(* characters in which "FB=" stands for the marker FB_PUBLIC_LOAD_DATA_ and *)
(* the equals sign that follows it.                                         *)

\* question_label is cut at 200 characters
LabelMax == 200

Clip(s) == SubSeq(s, 1, IF Len(s) < LabelMax THEN Len(s) ELSE LabelMax)

\* an element whose name starts with "entry."; its name is "entry." + eid
SmControl(tag, eid, type, opts, text) ==
    [tag |-> tag, eid |-> eid, type |-> type, options |-> opts, parent_text |-> text]

\* a value of the dict fields
SmField(eid, t, opts, lbl) ==
    [entry_id |-> eid, type |-> t, options |-> opts, question_label |-> lbl]

FieldIds(fields) == {fields[k].entry_id : k \in 1..Len(fields)}

\* fields.setdefault(eid, d)
SetDefault(fields, d) ==
    IF d.entry_id \in FieldIds(fields) THEN fields ELSE Append(fields, d)

\* fields[eid] = d
SetField(fields, d) ==
    IF d.entry_id \in FieldIds(fields)
    THEN [k \in 1..Len(fields) |->
            IF fields[k].entry_id = d.entry_id THEN d ELSE fields[k]]
    ELSE Append(fields, d)

\* str.lower() of a type attribute
TypeLower(t) ==
    CASE t = "RADIO" -> "radio"
      [] t = "Hidden" -> "hidden"
      [] OTHER -> t

S_sentinel == <<"_", "s", "e", "n", "t", "i", "n", "e", "l">>

RECURSIVE DomInputs(_, _, _)
\* lines 29-43: the input elements
DomInputs(cs, k, fields) ==
    IF k > Len(cs) THEN fields
    ELSE LET c == cs[k]
             t == TypeLower(c.type)
             ft == IF t = "radio" THEN "choice"
                   ELSE IF t = "checkbox" THEN "checkbox" ELSE "text"
         IN  IF c.tag # "input" \/ EndsWith(c.eid, S_sentinel) \/ t = "hidden"
             THEN DomInputs(cs, k + 1, fields)
             ELSE DomInputs(cs, k + 1,
                            SetDefault(fields, SmField(c.eid, ft, {}, <<>>)))

RECURSIVE DomTextareas(_, _, _)
\* lines 44-46
DomTextareas(cs, k, fields) ==
    IF k > Len(cs) THEN fields
    ELSE IF cs[k].tag # "textarea" THEN DomTextareas(cs, k + 1, fields)
    ELSE DomTextareas(cs, k + 1,
                      SetDefault(fields, SmField(cs[k].eid, "paragraph", {}, <<>>)))

RECURSIVE DomSelects(_, _, _)
\* lines 47-51: the option texts, stripped, the empty ones dropped, are added
\* to the field the entry id already has
DomSelects(cs, k, fields) ==
    IF k > Len(cs) THEN fields
    ELSE IF cs[k].tag # "select" THEN DomSelects(cs, k + 1, fields)
    ELSE LET with == SetDefault(fields, SmField(cs[k].eid, "dropdown", {}, <<>>))
             texts == {strip(cs[k].options[j]) : j \in 1..Len(cs[k].options)} \ {<<>>}
         IN  DomSelects(cs, k + 1,
                 [j \in 1..Len(with) |->
                     IF with[j].entry_id = cs[k].eid
                     THEN [with[j] EXCEPT !.options = @ \cup texts]
                     ELSE with[j]])

\* lines 53-57: the label is the text of the parent of the first element of
\* that name
DomLabels(cs, fields) ==
    [j \in 1..Len(fields) |->
        LET hits == {k \in 1..Len(cs) : cs[k].eid = fields[j].entry_id}
        IN  IF hits = {} THEN fields[j]
            ELSE [fields[j] EXCEPT
                    !.question_label = Clip(cs[Lowest(hits)].parent_text)]]

\* lines 27-57
DomFields(cs) ==
    DomLabels(cs, DomSelects(cs, 1, DomTextareas(cs, 1, DomInputs(cs, 1, <<>>))))

\* line 62: the leftmost marker that an opening bracket follows; the index of
\* that bracket, or 0
BlobStart(text) ==
    LET hits == {k \in 1..(Len(text) - 1) : text[k] = "FB=" /\ text[k + 1] = "["}
    IN  IF hits = {} THEN 0 ELSE Lowest(hits) + 1

(* json.loads, for the values a blob is made of: arrays, strings without    *)
(* escapes, and the numbers 0 to 10, each one character of the text         *)

Numbers == Digits \cup {"10"}

JList(items) == [t |-> "list", items |-> items, s |-> <<>>, n |-> ""]
JStr(s) == [t |-> "str", items |-> <<>>, s |-> s, n |-> ""]
JInt(n) == [t |-> "int", items |-> <<>>, s |-> <<>>, n |-> n]

JFail == [ok |-> FALSE, next |-> 0, val |-> JInt("")]
JOk(next, val) == [ok |-> TRUE, next |-> next, val |-> val]

RECURSIVE ParseValue(_, _), ParseItems(_, _, _)
ParseValue(s, k) ==
    IF k > Len(s) THEN JFail
    ELSE IF s[k] = "\"" THEN
        LET j == Find(s, "\"", k + 1)
        IN  IF j = 0 THEN JFail ELSE JOk(j + 1, JStr(SubSeq(s, k + 1, j - 1)))
    ELSE IF s[k] \in Numbers THEN JOk(k + 1, JInt(s[k]))
    ELSE IF s[k] = "[" THEN
        IF k + 1 <= Len(s) /\ s[k + 1] = "]" THEN JOk(k + 2, JList(<<>>))
        ELSE ParseItems(s, k + 1, <<>>)
    ELSE JFail

ParseItems(s, k, acc) ==
    LET v == ParseValue(s, k)
    IN  IF ~v.ok \/ v.next > Len(s) THEN JFail
        ELSE IF s[v.next] = "," THEN ParseItems(s, v.next + 1, Append(acc, v.val))
        ELSE IF s[v.next] = "]" THEN JOk(v.next + 1, JList(Append(acc, v.val)))
        ELSE JFail

\* json.loads(jtxt): the whole text is one value
LoadArray(jtxt) ==
    LET v == ParseValue(jtxt, 1)
    IN  IF v.ok /\ v.next = Len(jtxt) + 1 THEN v ELSE JFail

\* Python truth of a value
JTruthy(v) ==
    CASE v.t = "list" -> v.items # <<>>
      [] v.t = "str" -> v.s # <<>>
      [] OTHER -> v.n # "0"

\* line 88
TMap(qtype) ==
    CASE qtype = "0" -> "text"
      [] qtype = "1" -> "paragraph"
      [] qtype = "2" -> "choice"
      [] qtype = "3" -> "checkbox"
      [] qtype = "4" -> "dropdown"
      [] qtype = "9" -> "date"
      [] qtype = "10" -> "time"
      [] OTHER -> "text"

\* lines 91-97: the entry id inside q[4][0][0], as str() gives it; <<>> when
\* there is none
EntryIdOf(q) ==
    LET q4 == q.items[5]
    IN  IF q4.t = "list" /\ q4.items # <<>> /\ q4.items[1].t = "list"
           /\ q4.items[1].items # <<>> /\ q4.items[1].items[1].t \in {"int", "str"}
        THEN LET e == q4.items[1].items[1]
             IN  IF e.t = "int" THEN <<e.n>> ELSE e.s
        ELSE <<>>

\* lines 102-114: the option labels under q[4][0][1]; an exception of the
\* lookup leaves the list empty
OptionsOf(q) ==
    LET inner == q.items[5].items[1].items
    IN  IF Len(inner) < 2 THEN {}
        ELSE LET opts == inner[2]
             IN  IF opts.t # "list" THEN {}
                 ELSE {strip(opts.items[j].items[1].s) :
                         j \in {i \in 1..Len(opts.items) :
                                  /\ opts.items[i].t = "list"
                                  /\ opts.items[i].items # <<>>
                                  /\ opts.items[i].items[1].t = "str"
                                  /\ strip(opts.items[i].items[1].s) # <<>>}}

RECURSIVE ReadQuestions(_, _, _)
\* lines 80-121: the loop over the questions; tmap.get raises TypeError on a
\* type that is a list, which ends the loop with the fields stored so far
ReadQuestions(qs, j, fields) ==
    IF j > Len(qs) THEN [fields |-> fields, raised |-> FALSE]
    ELSE LET q == qs[j]
         IN  IF q.t # "list" \/ Len(q.items) < 5
             THEN ReadQuestions(qs, j + 1, fields)
             ELSE IF q.items[4].t = "list" THEN [fields |-> fields, raised |-> TRUE]
             ELSE LET label == IF q.items[2].t = "str" THEN q.items[2].s ELSE <<>>
                      ftype == IF q.items[4].t = "int" THEN TMap(q.items[4].n)
                               ELSE "text"
                      eid == EntryIdOf(q)
                      options == IF ftype \in {"choice", "checkbox", "dropdown"}
                                 THEN OptionsOf(q) ELSE {}
                  IN  IF eid = <<>> THEN ReadQuestions(qs, j + 1, fields)
                      ELSE ReadQuestions(qs, j + 1,
                               SetField(fields, SmField(eid, ftype, options, Clip(label))))

\* lines 76-79 and the loop: what the parsed blob gives
BlobFields(data) ==
    IF data.t = "list" /\ Len(data.items) > 1 /\ data.items[2].t = "list"
       /\ Len(data.items[2].items) > 1
    THEN LET qs == data.items[2].items[2]
         IN  IF ~JTruthy(qs) \/ qs.t = "str" THEN [fields |-> <<>>, raised |-> FALSE]
             ELSE IF qs.t = "int" THEN [fields |-> <<>>, raised |-> TRUE]
             ELSE ReadQuestions(qs.items, 1, <<>>)
    ELSE [fields |-> <<>>, raised |-> FALSE]

(* The pages *)

SmControls ==
    { <<>>,
      <<SmControl("input", <<"1">>, "text", <<>>, <<"N">>)>>,
      <<SmControl("input", <<"1">>, "Hidden", <<>>, <<"N">>)>>,
      <<SmControl("input", <<"1">> \o S_sentinel, "hidden", <<>>, <<"N">>)>>,
      <<SmControl("input", <<"2">>, "RADIO", <<>>, <<"Q">>),
        SmControl("input", <<"2">>, "radio", <<>>, <<"Q">>),
        SmControl("input", <<"3">>, "checkbox", <<>>, <<"Q">>)>>,
      <<SmControl("textarea", <<"4">>, "", <<>>, <<"Q">>)>>,
      <<SmControl("select", <<"5">>, "", <<<<" ">>, <<"A">>, <<"A", " ">>>>, <<"Q">>)>> }

\* a blob of one question: its label, its type, its options
Blob(label, qtype, opts) ==
    <<"FB=", "[", "0", ",", "[", "0", ",", "[", "[", "1", ",", "\"">> \o label
        \o <<"\"", ",", "0", ",">> \o qtype \o <<",", "[", "[", "7">> \o opts
        \o <<"]", "]", "]", "]", "]", "]">>

BlobLabels == {<<"a">>, <<"a", "]">>, <<"[", "a">>, <<"[", "a", "]">>}
BlobTypes == {<<"0">>, <<"2">>, <<"10">>, <<"[", "]">>, <<"\"", "a", "\"">>}
BlobOpts == {<<>>, <<",", "[", "[", "\"", "b", "\"", "]", ",", "[", "]", "]">>, <<",", "5">>}
BlobTails == {<<";">>, <<";", "x", "]">>}

SmTexts ==
    { Blob(l, t, o) \o tail : l \in BlobLabels, t \in BlobTypes, o \in BlobOpts,
                               tail \in BlobTails }
    \cup { <<"x">>,
           <<"FB=", "0", ";">>,
           <<"FB=", "[", "0", ",", "[", "0", ";">>,
           <<"FB=", "[", "0", "0", "]", ";">>,
           <<"FB=", "[", "0", ",", "[", "0", ",", "5", "]", "]", ";">>,
           <<"FB=", "[", "0", ",", "[", "0", ",", "0", "]", "]", ";">>,
           <<"FB=", "[", "]", ";">>,
           <<"FB=", "x", "FB=", "[", "]", ";">> }

SmInit ==
    /\ PfIdle /\ GmIdle /\ SlIdle /\ PrIdle /\ CsIdle /\ AtIdle /\ LgIdle /\ TpIdle
    /\ html \in [controls : SmControls, text : SmTexts]
    /\ sm_pc = "dom"
    /\ sm_i = 0 /\ sm_count = 0 /\ sm_end = 0
    /\ sm_fields = <<>>
    /\ sm_caught = FALSE

\* lines 27-57
DomPass ==
    /\ sm_pc = "dom"
    /\ sm_fields' = DomFields(html.controls)
    /\ sm_pc' = IF sm_fields' = <<>> THEN "search" ELSE "out"
    /\ UNCHANGED <<html, sm_i, sm_count, sm_end, sm_caught>>
    /\ UNCHANGED NotSm

\* lines 62-65: the marker is found
MarkerFound ==
    /\ sm_pc = "search" /\ BlobStart(html.text) # 0
    /\ sm_i' = BlobStart(html.text)
    /\ sm_pc' = "scan"
    /\ UNCHANGED <<html, sm_count, sm_end, sm_fields, sm_caught>>
    /\ UNCHANGED NotSm

\* line 63: no marker
MarkerAbsent ==
    /\ sm_pc = "search" /\ BlobStart(html.text) = 0
    /\ sm_pc' = "out"
    /\ UNCHANGED <<html, sm_i, sm_count, sm_end, sm_fields, sm_caught>>
    /\ UNCHANGED NotSm

Scanning == sm_pc = "scan" /\ sm_i <= Len(html.text)

\* lines 68-69
ScanOpen ==
    /\ Scanning /\ html.text[sm_i] = "["
    /\ sm_count' = sm_count + 1
    /\ sm_i' = sm_i + 1
    /\ UNCHANGED <<html, sm_pc, sm_end, sm_fields, sm_caught>>
    /\ UNCHANGED NotSm

\* lines 70-73
ScanClose ==
    /\ Scanning /\ html.text[sm_i] = "]"
    /\ sm_count' = sm_count - 1
    /\ IF sm_count' = 0
       THEN sm_end' = sm_i + 1 /\ sm_pc' = "load" /\ sm_i' = sm_i
       ELSE sm_i' = sm_i + 1 /\ UNCHANGED <<sm_end, sm_pc>>
    /\ UNCHANGED <<html, sm_fields, sm_caught>>
    /\ UNCHANGED NotSm

\* line 66: any other character
ScanOther ==
    /\ Scanning /\ html.text[sm_i] \notin {"[", "]"}
    /\ sm_i' = sm_i + 1
    /\ UNCHANGED <<html, sm_pc, sm_count, sm_end, sm_fields, sm_caught>>
    /\ UNCHANGED NotSm

\* line 74: the text ended with end still None
ScanExhausted ==
    /\ sm_pc = "scan" /\ sm_i > Len(html.text)
    /\ sm_pc' = "out"
    /\ UNCHANGED <<html, sm_i, sm_count, sm_end, sm_fields, sm_caught>>
    /\ UNCHANGED NotSm

\* line 75: jtxt
Span == SubSeq(html.text, BlobStart(html.text), sm_end - 1)

\* line 76 raises: the span is not JSON
LoadFails ==
    /\ sm_pc = "load" /\ ~LoadArray(Span).ok
    /\ sm_caught' = TRUE
    /\ sm_pc' = "out"
    /\ UNCHANGED <<html, sm_i, sm_count, sm_end, sm_fields>>
    /\ UNCHANGED NotSm

\* lines 76-121, and 123-125 when the loop raises
LoadQuestions ==
    /\ sm_pc = "load" /\ LoadArray(Span).ok
    /\ LET got == BlobFields(LoadArray(Span).val)
       IN  /\ sm_fields' = got.fields
           /\ sm_caught' = got.raised
    /\ sm_pc' = "out"
    /\ UNCHANGED <<html, sm_i, sm_count, sm_end>>
    /\ UNCHANGED NotSm

\* lines 127-130; sorted(list(options)) is the set in its one sorted order
ReturnOut ==
    /\ sm_pc = "out"
    /\ sm_pc' = "returned"
    /\ UNCHANGED <<html, sm_i, sm_count, sm_end, sm_fields, sm_caught>>
    /\ UNCHANGED NotSm

SmNext ==
    \/ DomPass
    \/ MarkerFound
    \/ MarkerAbsent
    \/ ScanOpen
    \/ ScanClose
    \/ ScanOther
    \/ ScanExhausted
    \/ LoadFails
    \/ LoadQuestions
    \/ ReturnOut

SpecSummarize == SmInit /\ [][SmNext]_vars

----------------------------------------------------------------------------
(* Properties of summarize_form_fields *)

RECURSIVE ArrayEnd(_, _, _, _)
\* the index after the bracket that closes the array opened at k, brackets
\* inside string values not counted; 0 when the array is not closed
ArrayEnd(s, k, depth, quoted) ==
    IF k > Len(s) THEN 0
    ELSE IF s[k] = "\"" THEN ArrayEnd(s, k + 1, depth, ~quoted)
    ELSE IF quoted THEN ArrayEnd(s, k + 1, depth, quoted)
    ELSE IF s[k] = "[" THEN ArrayEnd(s, k + 1, depth + 1, quoted)
    ELSE IF s[k] = "]" THEN
        IF depth = 1 THEN k + 1 ELSE ArrayEnd(s, k + 1, depth - 1, quoted)
    ELSE ArrayEnd(s, k + 1, depth, quoted)

\* C23: without DOM entry fields the blob array is scanned from its opening
\* bracket to the bracket where the depth is back at zero, and the span taken
\* is the complete top-level array whatever the blob holds, brackets inside
\* string values included; when the brackets never balance or the span is
\* not JSON no descriptor is produced; with a DOM entry field the blob is
\* not consulted.
C23_CompleteArray ==
    /\ (sm_pc \in {"load", "out", "returned"} /\ sm_end # 0) =>
          sm_end = ArrayEnd(html.text, BlobStart(html.text), 0, FALSE)
    /\ (sm_pc \in {"out", "returned"} /\ DomFields(html.controls) = <<>>
        /\ (sm_end = 0 \/ ~LoadArray(Span).ok)) => sm_fields = <<>>
    /\ DomFields(html.controls) # <<>> => sm_i = 0 /\ ~sm_caught

----------------------------------------------------------------------------
(* sallie_form/form_filler/utils.py: save_log.  The file is the CSV records *)
(* it holds, in order; csv.DictWriter writes one record for the header and  *)
(* one for each row, whatever characters the values hold.                   *)

\* most calls of save_log
MaxCalls == 3

\* line 34
fieldnames == <<"timestamp", "url", "status", "error">>

\* row.get(key, default)
RowGet(r, key, default) == IF key \in DOMAIN r THEN r[key] ELSE default

\* lines 42-47: log_row, in the order of fieldnames; ts() is the time of the
\* call
LogRow(r) ==
    <<RowGet(r, "timestamp", "now"), RowGet(r, "url", ""), RowGet(r, "status", "unknown"),
      RowGet(r, "error", "")>>

\* the dicts save_log is called with
LgRows ==
    { [k \in {"timestamp", "url", "status", "error"} |->
          CASE k = "timestamp" -> "t" [] k = "url" -> "u" [] k = "status" -> "success"
            [] OTHER -> ""],
      [k \in {"timestamp", "url", "status", "error"} |->
          CASE k = "timestamp" -> "t" [] k = "url" -> "u" [] k = "status" -> "error"
            [] OTHER -> "a,b"],
      [k \in {"url", "status", "error", "screenshot"} |->
          CASE k = "url" -> "u" [] k = "status" -> "timeout" [] k = "error" -> "e"
            [] OTHER -> "s.png"],
      [k \in {"note"} |-> "n"],
      [k \in {} |-> ""] }

LgInit ==
    /\ PfIdle /\ GmIdle /\ SlIdle /\ PrIdle /\ CsIdle /\ AtIdle /\ SmIdle /\ TpIdle
    /\ log_file = [exists |-> FALSE, records |-> <<>>]
    /\ log_calls = <<>>

\* mutant: the header is written by every call
SaveLog_header_always ==
    /\ Len(log_calls) < MaxCalls
    /\ \E r \in LgRows :
          /\ log_file' = [exists |-> TRUE,
                          records |-> log_file.records \o <<fieldnames, LogRow(r)>>]
          /\ log_calls' = Append(log_calls, r)
    /\ UNCHANGED NotLg

\* lines 21-49: the file is opened for appending, which creates it; the
\* header is written when it did not exist before
SaveLog ==
    /\ Len(log_calls) < MaxCalls
    /\ \E r \in LgRows :
          /\ log_file' = [exists |-> TRUE,
                          records |-> log_file.records
                                        \o (IF log_file.exists THEN <<>> ELSE <<fieldnames>>)
                                        \o <<LogRow(r)>>]
          /\ log_calls' = Append(log_calls, r)
    /\ UNCHANGED NotLg

LgNext == SaveLog

SpecSaveLog == LgInit /\ [][LgNext]_vars

----------------------------------------------------------------------------
(* Properties of save_log *)

\* the record a call leaves: the values of the four columns, a column the
\* dict lacks filled in, every other key dropped
Expected(r) ==
    [c \in 1..4 |->
        IF fieldnames[c] \in DOMAIN r THEN r[fieldnames[c]]
        ELSE CASE fieldnames[c] = "timestamp" -> "now"
               [] fieldnames[c] = "status" -> "unknown"
               [] OTHER -> ""]

LogAsCalled ==
    IF log_calls = <<>> THEN ~log_file.exists /\ log_file.records = <<>>
    ELSE /\ log_file.exists
         /\ Len(log_file.records) = Len(log_calls) + 1
         /\ log_file.records[1] = <<"timestamp", "url", "status", "error">>
         /\ \A k \in 1..Len(log_calls) : log_file.records[k + 1] = Expected(log_calls[k])

LogKept ==
    /\ Len(log_file'.records) >= Len(log_file.records)
    /\ SubSeq(log_file'.records, 1, Len(log_file.records)) = log_file.records

\* C25: the run log is append-only with fixed columns: after any sequence of
\* save_log calls the file is the header timestamp,url,status,error once, as
\* its first line, then one row per call in call order; earlier rows are
\* never changed or removed, and no key outside the four columns appears.
C25_AppendOnly == [](LogAsCalled) /\ [][LogKept]_vars

\* three calls, among them a dict with a key that is no column and a dict
\* without any column
C25_Witness ==
    /\ Len(log_calls) = 3
    /\ \E k \in 1..3 : "screenshot" \in DOMAIN log_calls[k]
    /\ \E k \in 1..3 : DOMAIN log_calls[k] = {}

----------------------------------------------------------------------------
(* prac/main.py: run_inspector writes the CSV template, and the filler      *)
(* reads it back.  csv.DictWriter and csv.DictReader, both on a file opened *)
(* with newline="", give back every cell as it was written, so the file is  *)
(* its header cells and the cells of its one row.                           *)

\* most questions extract_form_questions detects
MaxQuestions == 2

\* line 393: the sample of a text question is cut at 60 characters
SampleMax == 60

S_Sample == <<"S", "a", "m", "p", "l", "e", " ">>

\* a detected question (lines 363-367); labels and options are stripped and
\* not empty
Question(label, type, options) == [label |-> label, type |-> type, options |-> options]

S_R_Multi == <<"R", " ", "(", "M", "u", "l", "t", "i", ")">>
S_AsB == <<"A", ";", "B">>

Questions ==
    { Question(S_Q, "text", <<>>),
      Question(S_Q_choice, "text", <<>>),
      Question(S_Q, "paragraph", <<>>),
      Question(S_R_Multi, "paragraph", <<>>),
      Question(S_Q, "choice", <<S_A, S_B>>),
      Question(S_Q, "choice", <<>>),
      Question(S_Q_choice, "choice", <<S_A>>),
      Question(S_Q, "multi", <<S_A, S_B, <<"C">>>>),
      Question(S_Q, "multi", <<S_AsB, <<"C">>>>),
      Question(S_R_Multi, "multi", <<S_A>>),
      Question(S_Q, "multi", <<>>),
      Question(S_Q, "unknown", <<>>) }

RECURSIVE Join(_, _)
\* sep.join(parts)
Join(parts, sep) ==
    IF parts = <<>> THEN <<>>
    ELSE IF Len(parts) = 1 THEN parts[1]
    ELSE parts[1] \o sep \o Join(Tail(parts), sep)

\* lines 390-404: the header of a question
HeaderOf(q) ==
    CASE q.type \in {"text", "paragraph"} -> q.label
      [] q.type = "choice" -> q.label \o <<" ">> \o S_choice
      [] OTHER -> q.label \o <<" ">> \o S_multi

\* lines 393, 397, 401-404: the sample value of a question
SampleOf(q) ==
    CASE q.type \in {"text", "paragraph"} ->
           SubSeq(S_Sample \o q.label, 1,
                  IF Len(S_Sample \o q.label) < SampleMax
                  THEN Len(S_Sample \o q.label) ELSE SampleMax)
      [] q.type = "choice" -> IF q.options # <<>> THEN q.options[1] ELSE <<>>
      [] OTHER -> Join(SubSeq(q.options, 1, IF Len(q.options) < 2 THEN Len(q.options) ELSE 2),
                       <<";", " ">>)

\* lines 386-407: the questions that get a column
InCsv(qs) == SelectSeq(qs, LAMBDA q : q.type \in {"text", "paragraph", "choice", "multi"})

\* lines 386-407: headers, one per question with a column
HeadersOf(qs) == [j \in 1..Len(InCsv(qs)) |-> HeaderOf(InCsv(qs)[j])]

\* the dict sample at a header: the value the last question of that header
\* assigned
SampleAt(qs, h) ==
    LET at == {j \in 1..Len(InCsv(qs)) : HeaderOf(InCsv(qs)[j]) = h}
    IN  SampleOf(InCsv(qs)[CHOOSE j \in at : \A o \in at : o <= j])

TpInit ==
    /\ PfIdle /\ GmIdle /\ SlIdle /\ PrIdle /\ CsIdle /\ AtIdle /\ SmIdle /\ LgIdle
    /\ questions \in SeqsUpTo(Questions, MaxQuestions)
    /\ template = <<>>
    /\ tp_pc = "inspect"
    /\ tp_rows = <<>>
    /\ tp_fields = <<>>

\* lines 414-421: writeheader, then writerow(sample), a cell per header
WriteTemplate ==
    /\ tp_pc = "inspect"
    /\ template' = [headers |-> HeadersOf(questions),
                    cells |-> [j \in 1..Len(HeadersOf(questions)) |->
                                  SampleAt(questions, HeadersOf(questions)[j])]]
    /\ tp_pc' = "written"
    /\ UNCHANGED <<questions, tp_rows, tp_fields>>
    /\ UNCHANGED NotTp

\* lines 281-284: csv.DictReader; a row is dict(zip(fieldnames, cells)), so
\* of two cells under one header the later stays; a file without a header
\* has no row
ReadTemplate ==
    /\ tp_pc = "written"
    /\ LET hs == template.headers
           firsts == SelectSeq([j \in 1..Len(hs) |-> j],
                               LAMBDA j : \A o \in 1..(j - 1) : hs[o] # hs[j])
           last(h) == CHOOSE j \in 1..Len(hs) :
                          hs[j] = h /\ \A o \in (j + 1)..Len(hs) : hs[o] # h
       IN  tp_rows' = IF hs = <<>> THEN <<>>
                      ELSE << [j \in 1..Len(firsts) |->
                                 Column(hs[firsts[j]], Cell(template.cells[last(hs[firsts[j]])]))] >>
    /\ tp_pc' = "read"
    /\ UNCHANGED <<questions, template, tp_fields>>
    /\ UNCHANGED NotTp

\* line 456: parse_row_types of the row
ParseTemplate ==
    /\ tp_pc = "read" /\ tp_rows # <<>>
    /\ tp_fields' = ParseRowTypes(tp_rows[1], 1, [text |-> <<>>, radio |-> <<>>, check |-> <<>>])
    /\ tp_pc' = "parsed"
    /\ UNCHANGED <<questions, template, tp_rows>>
    /\ UNCHANGED NotTp

TpNext ==
    \/ WriteTemplate
    \/ ReadTemplate
    \/ ParseTemplate

SpecTemplate == TpInit /\ [][TpNext]_vars

----------------------------------------------------------------------------
(* Properties of the template *)

\* the dict has the label, with the value
Holds(items, label, val) == \E j \in 1..Len(items) : items[j] = <<label, val>>

\* C30: the template round-trips through the filler: for every detected
\* question of type text, paragraph, choice or multi, the header written for
\* it is parsed by parse_row_types back to the same label and the same kind
\* of field, whatever the label, and a multi sample joined with "; " splits
\* back into the same options.
C30_TemplateRoundTrip ==
    tp_pc = "parsed" =>
        \A k \in 1..Len(questions) :
            LET q == questions[k]
            IN  /\ q.type \in {"text", "paragraph"} =>
                      \E j \in 1..Len(tp_fields.text) : tp_fields.text[j][1] = q.label
                /\ (q.type = "choice" /\ SampleAt(questions, HeaderOf(q)) # <<>>) =>
                      \E j \in 1..Len(tp_fields.radio) : tp_fields.radio[j][1] = q.label
                /\ (q.type = "multi" /\ SampleAt(questions, HeaderOf(q)) # <<>>) =>
                      \E j \in 1..Len(tp_fields.check) :
                          /\ tp_fields.check[j][1] = q.label
                          /\ \E o \in 1..Len(questions) :
                                /\ HeaderOf(questions[o]) = HeaderOf(q)
                                /\ tp_fields.check[j][2]
                                     = SubSeq(questions[o].options, 1,
                                              IF Len(questions[o].options) < 2
                                              THEN Len(questions[o].options) ELSE 2)
====
